---- MODULE Spec2Model ----
(***************************************************************************)
(* Key Transparency client core of libsignal-net (rust/net/src/keytrans.rs) *)
(* as a state machine: one caller drives the driver `Kt` through `search`,  *)
(* `distinguished` and `monitor` calls, each suspending once at the chat     *)
(* transport,                                                              *)
(* and through direct calls of `verify_chat_search_response`.               *)
(*                                                                         *)
(* Further specifications over the same variables: SpecKeys (search keys   *)
(* computed on their own), SpecShared (two callers on one driver; the      *)
(* per-call variables are then functions of the caller), SpecSvr3 (the     *)
(* SVR3 clients of the bridge; `sends` counts connection attempts and      *)
(* `response` holds the outcomes of the last connect), SpecConnectError    *)
(* (conversion of a failed connection attempt, chat/error.rs) and          *)
(* SpecEndpoints (threads swapping and cloning the endpoint connections of *)
(* the bridge's ConnectionManager; the variables are read as described     *)
(* there).                                                                 *)
(*                                                                         *)
(* Byte strings are sequences of integers.  Fixed-size values are scaled    *)
(* down: a service id is one byte, a curve point is one byte after its      *)
(* type byte.                                                               *)
(***************************************************************************)
EXTENDS Integers, Sequences, FiniteSets, TLC

VARIABLES
    pc,        \* position of the caller: "idle", "await" (suspended in send), "done"
    call,      \* the operation in progress and its arguments
    request,   \* the chat::Request handed to the transport by this call, if any
    sends,     \* number of send_unauthenticated invocations made by this call
    response,  \* what the transport delivered to this call, if anything
    calls,     \* the primitive verifier invocations made by this call, in order
    result,    \* the Result returned by this call
    account,   \* the AccountData the caller holds for the account (Option)
    dist       \* the distinguished LastTreeHead the caller holds

vars == <<pc, call, request, sends, response, calls, result, account, dist>>

-----------------------------------------------------------------------------
(* Bounds *)

MaxTreeSize == 3
\* Longest username hash of the search-key computations.
MaxHashLen == 2
\* Most connects of the current SVR3 client in one behaviour.
MaxConnects == 2
\* Largest Retry-After, in seconds, a rejecting server sends.
MaxRetryAfter == 3
\* Most EndpointConnections built after construction in one behaviour.
MaxSwaps == 3
\* Threads calling set_censorship_circumvention_enabled, numbered from 1;
\* thread 0 is the one that connects.
NumWriters == 2

Roots == {1, 2}
Keys == {1, 2}

-----------------------------------------------------------------------------
(* Option and Result *)

None == [some |-> FALSE]
Some(v) == [some |-> TRUE, val |-> v]

Ok(v) == [ok |-> TRUE, val |-> v]
Err(e, m) == [ok |-> FALSE, err |-> e, msg |-> m]

InvalidResponse(m) == Err("InvalidResponse", m)
InvalidRequest(m) == Err("InvalidRequest", m)
VerificationFailed == Err("VerificationFailed", "verification failed")
RequestFailed(status) == [ok |-> FALSE, err |-> "RequestFailed", status |-> status]
\* Faulty variant: the transport's error is replaced by a timeout.
ChatServiceError_AsTimeout(e) == [ok |-> FALSE, err |-> "ChatServiceError", source |-> "Timeout"]
ChatServiceError(e) == [ok |-> FALSE, err |-> "ChatServiceError", source |-> e]

-----------------------------------------------------------------------------
(* Constants of the source *)

SEARCH_PATH == "/v1/key-transparency/search"
DISTINGUISHED_PATH == "/v1/key-transparency/distinguished"
MONITOR_PATH == "/v1/key-transparency/monitor"
MIME_TYPE == "application/json"

SEARCH_VALUE_PREFIX == 0

SEARCH_KEY_PREFIX_ACI == 97
SEARCH_KEY_PREFIX_E164 == 110
SEARCH_KEY_PREFIX_USERNAME_HASH == 117

chat_timeout == 10

common_headers == [content_type |-> MIME_TYPE, accept |-> MIME_TYPE]

-----------------------------------------------------------------------------
(* Identities, search keys and chat values *)

DJB_TYPE == 5

\* The account of the caller and the optional identities it may ask about.
TheAci == <<7>>
TheE164 == 18
TheUsernameHash == <<9, 9>>
\* The ACI of another account.
AnotherAci == <<8>>

RECURSIVE Digits(_)
Digits(n) == IF n < 10 THEN <<48 + n>> ELSE Digits(n \div 10) \o <<48 + (n % 10)>>

\* E164::to_string: '+' followed by the decimal digits
E164_to_string(e164) == <<43>> \o Digits(e164)

Aci_as_search_key(aci) == <<SEARCH_KEY_PREFIX_ACI>> \o aci
E164_as_search_key(e164) == <<SEARCH_KEY_PREFIX_E164>> \o E164_to_string(e164)

\* Faulty variant: username hashes share the prefix of the E.164s.
UsernameHash_as_search_key_E164Prefix(h) == <<SEARCH_KEY_PREFIX_E164>> \o h

UsernameHash_as_search_key(h) == <<SEARCH_KEY_PREFIX_USERNAME_HASH>> \o h

\* Text encodings, tagged by the alphabet that produced them.
Base64(engine, bytes) == [engine |-> engine, of |-> bytes]

Aci_as_chat_value(aci) == [service_id_string |-> aci]
E164_as_chat_value(e164) == E164_to_string(e164)
UsernameHash_as_chat_value(h) == Base64("URL_SAFE_NO_PAD", h)

\* PublicKey::serialize: the type byte followed by the point
PublicKey_serialize(k) == <<DJB_TYPE, k>>

-----------------------------------------------------------------------------
(* Wire codec: requests *)

\* serde_json with skip_serializing_if = "Option::is_none": a field whose
\* value is None is left out of the object, the others appear under their
\* camelCase names.
Present(fields) == {f \in DOMAIN fields : fields[f].some}
\* Faulty variant: absent fields are written as null.
to_json_WithNulls(fields) ==
    [f \in DOMAIN fields |-> IF fields[f].some THEN fields[f].val ELSE "null"]

to_json(fields) == [f \in Present(fields) |-> fields[f].val]

\* Faulty variant: the identity key is encoded with the URL-safe alphabet.
RawChatSearchRequest_new_UrlSafeKey(aci, aci_identity_key, e164, username_hash, last_size, dist_size) ==
    [ aci |-> Some(Aci_as_chat_value(aci)),
      aciIdentityKey |-> Some(Base64("URL_SAFE_NO_PAD", PublicKey_serialize(aci_identity_key))),
      e164 |-> IF e164.some THEN Some(E164_as_chat_value(e164.val[1])) ELSE None,
      usernameHash |-> IF username_hash.some
                       THEN Some(UsernameHash_as_chat_value(username_hash.val))
                       ELSE None,
      unidentifiedAccessKey |-> IF e164.some THEN Some(Base64("STANDARD", e164.val[2]))
                                ELSE None,
      lastTreeHeadSize |-> last_size,
      distinguishedTreeHeadSize |-> Some(dist_size) ]

\* Faulty variant: the unidentified access key is never sent.
RawChatSearchRequest_new_NoAccessKey(aci, aci_identity_key, e164, username_hash, last_size, dist_size) ==
    [ aci |-> Some(Aci_as_chat_value(aci)),
      aciIdentityKey |-> Some(Base64("STANDARD", PublicKey_serialize(aci_identity_key))),
      e164 |-> IF e164.some THEN Some(E164_as_chat_value(e164.val[1])) ELSE None,
      usernameHash |-> IF username_hash.some
                       THEN Some(UsernameHash_as_chat_value(username_hash.val))
                       ELSE None,
      unidentifiedAccessKey |-> None,
      lastTreeHeadSize |-> last_size,
      distinguishedTreeHeadSize |-> Some(dist_size) ]

RawChatSearchRequest_new(aci, aci_identity_key, e164, username_hash, last_size, dist_size) ==
    [ aci |-> Some(Aci_as_chat_value(aci)),
      aciIdentityKey |-> Some(Base64("STANDARD", PublicKey_serialize(aci_identity_key))),
      e164 |-> IF e164.some THEN Some(E164_as_chat_value(e164.val[1])) ELSE None,
      usernameHash |-> IF username_hash.some
                       THEN Some(UsernameHash_as_chat_value(username_hash.val))
                       ELSE None,
      unidentifiedAccessKey |-> IF e164.some THEN Some(Base64("STANDARD", e164.val[2]))
                                ELSE None,
      lastTreeHeadSize |-> last_size,
      distinguishedTreeHeadSize |-> Some(dist_size) ]

RawChatSearchRequest_into(raw) ==
    [ method |-> "POST", path |-> SEARCH_PATH, headers |-> common_headers,
      body |-> Some(to_json(raw)) ]

-----------------------------------------------------------------------------
(* Wire codec: responses *)

\* A body that arrives is a byte string; what matters of it is how far it
\* decodes.  Each layer either is garbage or wraps the next one.
Garbage == [layer |-> "garbage"]
JsonEnvelope(s) == [layer |-> "json", serializedResponse |-> s]
Base64NoPad(bytes) == [layer |-> "base64", bytes |-> bytes]
Protobuf(msg) == [layer |-> "protobuf", msg |-> msg]

Encoded(msg) == JsonEnvelope(Base64NoPad(Protobuf(msg)))

RawChatSerializedResponse_try_from(resp) ==
    IF ~resp.body.some THEN InvalidResponse("missing body")
    ELSE IF resp.body.val.layer # "json" THEN InvalidResponse("invalid JSON")
    ELSE Ok(resp.body.val.serializedResponse)

\* Faulty variant: every decoding failure is reported as a base64 failure.
decode_response_OneTag(b64) ==
    IF b64.layer # "base64" \/ b64.bytes.layer # "protobuf" THEN InvalidResponse("invalid base64")
    ELSE Ok(b64.bytes.msg)

decode_response(b64) ==
    IF b64.layer # "base64" THEN InvalidResponse("invalid base64")
    ELSE IF b64.bytes.layer # "protobuf"
         THEN InvalidResponse("invalid search response protobuf encoding")
    ELSE Ok(b64.bytes.msg)

\* Faulty variant: the mandatory fields are looked at before the optionality.
TypedSearchResponse_from_untyped_TreeHeadFirst(require_e164, require_username_hash, resp) ==
    IF ~resp.tree_head.some THEN InvalidResponse("missing tree head")
    ELSE IF ~resp.aci.some THEN InvalidResponse("missing ACI search response")
    ELSE IF require_e164 # resp.e164.some \/ require_username_hash # resp.username_hash.some
    THEN InvalidResponse("request/response optionality mismatch")
    ELSE Ok([ full_tree_head |-> resp.tree_head.val,
              aci_search_response |-> resp.aci.val,
              e164_search_response |-> resp.e164,
              username_hash_search_response |-> resp.username_hash ])

TypedSearchResponse_from_untyped(require_e164, require_username_hash, resp) ==
    IF require_e164 # resp.e164.some \/ require_username_hash # resp.username_hash.some
    THEN InvalidResponse("request/response optionality mismatch")
    ELSE IF ~resp.tree_head.some THEN InvalidResponse("missing tree head")
    ELSE IF ~resp.aci.some THEN InvalidResponse("missing ACI search response")
    ELSE Ok([ full_tree_head |-> resp.tree_head.val,
              aci_search_response |-> resp.aci.val,
              e164_search_response |-> resp.e164,
              username_hash_search_response |-> resp.username_hash ])

-----------------------------------------------------------------------------
(* Value extractor *)

\* Faulty variant: any first byte is taken for the version prefix.
SearchValue_try_from_AnyPrefix(verified) ==
    IF Len(verified.value) > 0
    THEN Ok([raw |-> verified.value])
    ELSE InvalidResponse("bad value format")

SearchValue_try_from(verified) ==
    IF Len(verified.value) > 0 /\ verified.value[1] = SEARCH_VALUE_PREFIX
    THEN Ok([raw |-> verified.value])
    ELSE InvalidResponse("bad value format")

payload(search_value) == Tail(search_value.raw)

\* Aci::parse_from_service_id_binary: exactly the bytes of a service id.
Aci_parse_from_service_id_binary(bytes) ==
    IF Len(bytes) = Len(TheAci) THEN Some(bytes) ELSE None

\* IdentityKey::decode: the type byte followed by the point.
IdentityKey_decode(bytes) ==
    IF Len(bytes) = 2 /\ bytes[1] = DJB_TYPE THEN Some(bytes[2]) ELSE None

\* Faulty variant: the ACI is not read from the payload of the value.
Aci_try_from_Fixed(search_value) ==
    LET a == Aci_parse_from_service_id_binary(payload(search_value))
    IN  IF a.some THEN Ok(TheAci) ELSE InvalidResponse("bad ACI")

Aci_try_from(search_value) ==
    LET a == Aci_parse_from_service_id_binary(payload(search_value))
    IN  IF a.some THEN Ok(a.val) ELSE InvalidResponse("bad ACI")

IdentityKey_try_from(search_value) ==
    LET k == IdentityKey_decode(payload(search_value))
    IN  IF k.some THEN Ok(k.val) ELSE InvalidResponse("bad identity key")

extract_value_as_Aci(verified) ==
    LET val == SearchValue_try_from(verified)
    IN  IF val.ok THEN Aci_try_from(val.val) ELSE val

extract_value_as_IdentityKey(verified) ==
    LET val == SearchValue_try_from(verified)
    IN  IF val.ok THEN IdentityKey_try_from(val.val) ELSE val

-----------------------------------------------------------------------------
(* Primitive verifier (libsignal_keytrans), used through its interface *)

\* The VRF output for a search key.
VrfIndex(search_key) == [vrf_of |-> search_key]

\* Error of the primitive verifier.
KtError == [ok |-> FALSE, kt_error |-> "VerificationFailed"]

\* Whether `full_tree_head` is an acceptable successor of the reference heads
\* of `context`: a consistency proof is present exactly for the reference
\* heads that are known, and proves that the new head extends the known one.
Extends(reference, tree_size, root) ==
    /\ reference.tree_size <= tree_size
    /\ reference.tree_size = tree_size => reference.root = root

ConsistencyVerifies(proof, reference, tree_size, root) ==
    /\ (proof # <<>>) = reference.some
    /\ reference.some => Extends(reference.val, tree_size, root)

verify_full_tree_head(full_tree_head, root, last, last_distinguished) ==
    /\ ConsistencyVerifies(full_tree_head.last, last, full_tree_head.tree_size, root)
    /\ ConsistencyVerifies(full_tree_head.distinguished, last_distinguished, full_tree_head.tree_size, root)

\* KeyTransparency::verify_search(request, response, context, include, now)
verify_search(a) ==
    LET condensed == a.response.condensed
        head == a.response.tree_head
        data == a.context.data
    IN  IF /\ condensed.proofs_ok
           /\ condensed.pos <= head.tree_size
           /\ verify_full_tree_head(head, condensed.root, a.context.last_tree_head, a.context.last_distinguished_tree_head)
        THEN Ok([ value |-> condensed.value,
                  state_update |->
                    [ tree_head |-> [tree_size |-> head.tree_size],
                      tree_root |-> condensed.root,
                      monitoring_data |->
                        IF condensed.monitor
                        THEN Some([ index |-> VrfIndex(a.request.search_key),
                                    pos |-> IF data.some THEN data.val.pos ELSE condensed.pos ])
                        ELSE None ] ])
        ELSE KtError

\* VerifiedSearchResult::are_all_roots_equal
are_all_roots_equal(self, others) ==
    \A i \in DOMAIN others :
        others[i].some => others[i].val.state_update.tree_root = self.state_update.tree_root

\* Faulty variant: an error of the verifier is reported as a flaw of the
\* response.
Error_from_keytrans_AsInvalidResponse(r) ==
    IF r.ok THEN r ELSE InvalidResponse("verification failed")

\* impl From<libsignal_keytrans::Error> for Error (thiserror #[from])
Error_from_keytrans(r) == IF r.ok THEN r ELSE VerificationFailed

-----------------------------------------------------------------------------
(* Verification facade: search *)

\* The arguments verify_single_search_response hands to verify_search.
\* Faulty variant: the distinguished head is withheld from the verifier.
SearchArgs_NoDistinguished(search_key, resp, monitoring_data, full_tree_head, last_tree_head, last_dist) ==
    [ request |-> [search_key |-> search_key],
      response |-> [condensed |-> resp, tree_head |-> full_tree_head],
      context |-> [ last_tree_head |-> last_tree_head,
                    last_distinguished_tree_head |-> None,
                    data |-> monitoring_data ],
      include_identity_key |-> TRUE ]

SearchArgs(search_key, resp, monitoring_data, full_tree_head, last_tree_head, last_dist) ==
    [ request |-> [search_key |-> search_key],
      response |-> [condensed |-> resp, tree_head |-> full_tree_head],
      context |-> [ last_tree_head |-> last_tree_head,
                    last_distinguished_tree_head |-> last_dist,
                    data |-> monitoring_data ],
      include_identity_key |-> TRUE ]

verify_single_search_response(a) == Error_from_keytrans(verify_search(a))

both_or_neither(a, b, msg) ==
    IF a.some /\ b.some THEN Ok(Some(<<a.val, b.val>>))
    ELSE IF ~a.some /\ ~b.some THEN Ok(None)
    ELSE InvalidResponse(msg)

\* The prior data handed to the verification of each identity.
PriorAci(stored) == IF stored.some THEN Some(stored.val.aci) ELSE None
\* Faulty variant: the E.164 is verified against the prior data of the
\* username hash.
PriorE164_OfUsernameHash(stored) == IF stored.some THEN stored.val.username_hash ELSE None
PriorE164(stored) == IF stored.some THEN stored.val.e164 ELSE None
PriorUsernameHash(stored) == IF stored.some THEN stored.val.username_hash ELSE None
PriorLastTreeHead_Absent(stored) == None
PriorLastTreeHead(stored) == IF stored.some THEN Some(stored.val.last_tree_head) ELSE None

\* Faulty variant: the username hash result is left out of the comparison.
RootsChecked_WithoutUsernameHash(aci_result, e164_result, username_hash_result) ==
    are_all_roots_equal(aci_result, <<e164_result>>)

RootsChecked(aci_result, e164_result, username_hash_result) ==
    are_all_roots_equal(aci_result, <<e164_result, username_hash_result>>)

StoredMonitoringData_from(md) == [index |-> md.index, pos |-> md.pos]
MapStored(opt) == IF opt.some THEN Some(StoredMonitoringData_from(opt.val)) ELSE None

UpdatedAccountData(aci_result, e164_result, username_hash_result) ==
    [ aci |-> MapStored(aci_result.state_update.monitoring_data),
      e164 |-> IF e164_result.some
               THEN MapStored(e164_result.val.state_update.monitoring_data) ELSE None,
      username_hash |-> IF username_hash_result.some
                        THEN MapStored(username_hash_result.val.state_update.monitoring_data)
                        ELSE None,
      last_tree_head |-> Some([ tree_head |-> Some(aci_result.state_update.tree_head),
                                root |-> aci_result.state_update.tree_root ]) ]

Out(res, log) == [result |-> res, calls |-> log]

\* verify_chat_search_response: the result it returns and the verifier
\* invocations it makes on the way.
verify_chat_search_response(aci, e164, username_hash, stored, typed, last_dist) ==
    LET head == typed.full_tree_head
        last == PriorLastTreeHead(stored)
        aci_args == SearchArgs(Aci_as_search_key(aci), typed.aci_search_response, PriorAci(stored), head, last, last_dist)
        aci_result == verify_single_search_response(aci_args)
        e164_pair == both_or_neither(e164, typed.e164_search_response, "E.164 request/response mismatch")
        e164_args == SearchArgs(E164_as_search_key(e164_pair.val.val[1]), e164_pair.val.val[2], PriorE164(stored), head, last, last_dist)
        e164_verified == verify_single_search_response(e164_args)
        e164_result == IF e164_pair.val.some THEN Some(e164_verified.val) ELSE None
        log2 == <<aci_args>> \o (IF e164_pair.val.some THEN <<e164_args>> ELSE <<>>)
        uh_pair == both_or_neither(username_hash, typed.username_hash_search_response, "Username hash request/response mismatch")
        uh_args == SearchArgs(UsernameHash_as_search_key(uh_pair.val.val[1]), uh_pair.val.val[2], PriorUsernameHash(stored), head, last, last_dist)
        uh_verified == verify_single_search_response(uh_args)
        uh_result == IF uh_pair.val.some THEN Some(uh_verified.val) ELSE None
        log3 == log2 \o (IF uh_pair.val.some THEN <<uh_args>> ELSE <<>>)
        identity_key == extract_value_as_IdentityKey(aci_result.val)
        aci_for_e164 == extract_value_as_Aci(e164_result.val)
        aci_for_username_hash == extract_value_as_Aci(uh_result.val)
    IN  IF ~aci_result.ok THEN Out(aci_result, <<aci_args>>)
        ELSE IF ~e164_pair.ok THEN Out(e164_pair, <<aci_args>>)
        ELSE IF e164_pair.val.some /\ ~e164_verified.ok THEN Out(e164_verified, log2)
        ELSE IF ~uh_pair.ok THEN Out(uh_pair, log2)
        ELSE IF uh_pair.val.some /\ ~uh_verified.ok THEN Out(uh_verified, log3)
        ELSE IF ~RootsChecked(aci_result.val, e164_result, uh_result)
             THEN Out(InvalidResponse("mismatching tree roots"), log3)
        ELSE IF ~identity_key.ok THEN Out(identity_key, log3)
        ELSE IF e164_result.some /\ ~aci_for_e164.ok THEN Out(aci_for_e164, log3)
        ELSE IF uh_result.some /\ ~aci_for_username_hash.ok THEN Out(aci_for_username_hash, log3)
        ELSE Out(Ok([ aci_identity_key |-> identity_key.val,
                      aci_for_e164 |-> IF e164_result.some THEN Some(aci_for_e164.val) ELSE None,
                      aci_for_username_hash |->
                          IF uh_result.some THEN Some(aci_for_username_hash.val) ELSE None,
                      account_data |-> UpdatedAccountData(aci_result.val, e164_result, uh_result) ]),
                 log3)

-----------------------------------------------------------------------------
(* Protocol driver: send and search *)

is_success(status) == 200 <= status /\ status < 300

\* Faulty variant: the status is looked at only after the body.
Kt_send_BodyFirst(t) ==
    IF ~t.ok THEN ChatServiceError(t.err)
    ELSE IF ~t.val.body.some THEN InvalidResponse("missing body")
    ELSE IF ~is_success(t.val.status) THEN RequestFailed(t.val.status)
    ELSE Ok(t.val)

\* Faulty variant: the status of the response is not looked at.
Kt_send_AnyStatus(t) ==
    IF ~t.ok THEN ChatServiceError(t.err) ELSE Ok(t.val)

\* Kt::send, after the transport has answered with `t`.
Kt_send(t) ==
    IF ~t.ok THEN ChatServiceError(t.err)
    ELSE IF ~is_success(t.val.status) THEN RequestFailed(t.val.status)
    ELSE Ok(t.val)

\* Faulty variant: the request never names the last tree head the caller holds.
SearchRequest_NoLastSize(c) ==
    RawChatSearchRequest_into(
        RawChatSearchRequest_new(c.aci, c.aci_identity_key, c.e164, c.username_hash,
            None, c.distinguished_tree_head.tree_size))

SearchRequest(c) ==
    RawChatSearchRequest_into(
        RawChatSearchRequest_new(c.aci, c.aci_identity_key, c.e164, c.username_hash,
            IF c.stored_account_data.some
            THEN Some(c.stored_account_data.val.last_tree_head.tree_size) ELSE None,
            c.distinguished_tree_head.tree_size))

DecodeSearch(resp, c) ==
    LET raw == RawChatSerializedResponse_try_from(resp)
        decoded == decode_response(raw.val)
    IN  IF ~raw.ok THEN raw
        ELSE IF ~decoded.ok THEN decoded
        ELSE TypedSearchResponse_from_untyped(c.e164.some, c.username_hash.some, decoded.val)

E164Of(e164) == IF e164.some THEN Some(e164.val[1]) ELSE None

\* Kt::search from the point where send returns.
Kt_search(c, t) ==
    LET sent == Kt_send(t)
        typed == DecodeSearch(sent.val, c)
    IN  IF ~sent.ok THEN Out(sent, <<>>)
        ELSE IF ~typed.ok THEN Out(typed, <<>>)
        ELSE verify_chat_search_response(c.aci, E164Of(c.e164), c.username_hash, c.stored_account_data, typed.val, Some(c.distinguished_tree_head))

-----------------------------------------------------------------------------
(* Wire codec and driver: monitor *)

\* MonitoringData::latest_log_position
latest_log_position(md) == md.pos

ValueMonitor_new(value, entry_position, commitment_index) ==
    [ value |-> value, entryPosition |-> entry_position,
      commitmentIndex |-> Base64("STANDARD_NO_PAD", commitment_index) ]

\* The request once the account data is known to match.
MonitorRequestFields(aci, e164, username_hash, account_data, dist_size) ==
    [ aci |-> Some(ValueMonitor_new(Aci_as_chat_value(aci), latest_log_position(account_data.aci), account_data.aci.index)),
      e164 |-> IF e164.some /\ account_data.e164.some
               THEN Some(ValueMonitor_new(E164_as_chat_value(e164.val), latest_log_position(account_data.e164.val), account_data.e164.val.index))
               ELSE None,
      usernameHash |-> IF username_hash.some /\ account_data.username_hash.some
                       THEN Some(ValueMonitor_new(UsernameHash_as_chat_value(username_hash.val), latest_log_position(account_data.username_hash.val), account_data.username_hash.val.index))
                       ELSE None,
      lastNonDistinguishedTreeHeadSize |-> Some(account_data.last_tree_head.tree_size),
      lastDistinguishedTreeHeadSize |-> Some(dist_size) ]

\* Faulty variant: data for an identity that is not requested goes unnoticed.
RawChatMonitorRequest_new_RequestedOnly(aci, e164, username_hash, account_data, dist_size) ==
    IF (e164.some /\ ~account_data.e164.some) \/ (username_hash.some /\ ~account_data.username_hash.some)
    THEN InvalidRequest("account data does not match the monitor request")
    ELSE Ok(MonitorRequestFields(aci, e164, username_hash, account_data, dist_size))

\* Faulty variant: only the E.164 of the request is compared with the
\* account data.
RawChatMonitorRequest_new_E164Only(aci, e164, username_hash, account_data, dist_size) ==
    IF e164.some # account_data.e164.some
    THEN InvalidRequest("account data does not match the monitor request")
    ELSE Ok(MonitorRequestFields(aci, e164, username_hash, account_data, dist_size))

\* Faulty variant: the account data is not compared with the request.
RawChatMonitorRequest_new_Unchecked(aci, e164, username_hash, account_data, dist_size) ==
    Ok(MonitorRequestFields(aci, e164, username_hash, account_data, dist_size))

RawChatMonitorRequest_new(aci, e164, username_hash, account_data, dist_size) ==
    IF e164.some # account_data.e164.some \/ username_hash.some # account_data.username_hash.some
    THEN InvalidRequest("account data does not match the monitor request")
    ELSE Ok([ aci |-> Some(ValueMonitor_new(Aci_as_chat_value(aci), latest_log_position(account_data.aci), account_data.aci.index)),
              e164 |-> IF e164.some
                       THEN Some(ValueMonitor_new(E164_as_chat_value(e164.val), latest_log_position(account_data.e164.val), account_data.e164.val.index))
                       ELSE None,
              usernameHash |-> IF username_hash.some
                               THEN Some(ValueMonitor_new(UsernameHash_as_chat_value(username_hash.val), latest_log_position(account_data.username_hash.val), account_data.username_hash.val.index))
                               ELSE None,
              lastNonDistinguishedTreeHeadSize |-> Some(account_data.last_tree_head.tree_size),
              lastDistinguishedTreeHeadSize |-> Some(dist_size) ])

RawChatMonitorRequest_into(raw) ==
    [ method |-> "POST", path |-> MONITOR_PATH, headers |-> common_headers,
      body |-> Some(to_json(raw)) ]

\* Faulty variant: a proof for an identity that was not requested is ignored.
TypedMonitorResponse_from_untyped_IgnoresUnrequested(require_e164, require_username_hash, resp) ==
    IF (require_e164 /\ ~resp.e164.some) \/ (require_username_hash /\ ~resp.username_hash.some)
    THEN InvalidResponse("request/response optionality mismatch")
    ELSE IF ~resp.tree_head.some THEN InvalidResponse("missing tree head")
    ELSE IF ~resp.aci.some THEN InvalidResponse("missing ACI monitor proof")
    ELSE Ok([ tree_head |-> resp.tree_head.val,
              aci |-> resp.aci.val,
              e164 |-> resp.e164,
              username_hash |-> resp.username_hash,
              inclusion |-> resp.inclusion ])

\* Faulty variant: the ACI proof is looked for before the tree head.
TypedMonitorResponse_from_untyped_AciFirst(require_e164, require_username_hash, resp) ==
    IF require_e164 # resp.e164.some \/ require_username_hash # resp.username_hash.some
    THEN InvalidResponse("request/response optionality mismatch")
    ELSE IF ~resp.aci.some THEN InvalidResponse("missing ACI monitor proof")
    ELSE IF ~resp.tree_head.some THEN InvalidResponse("missing tree head")
    ELSE Ok([ tree_head |-> resp.tree_head.val,
              aci |-> resp.aci.val,
              e164 |-> resp.e164,
              username_hash |-> resp.username_hash,
              inclusion |-> resp.inclusion ])

TypedMonitorResponse_from_untyped(require_e164, require_username_hash, resp) ==
    IF require_e164 # resp.e164.some \/ require_username_hash # resp.username_hash.some
    THEN InvalidResponse("request/response optionality mismatch")
    ELSE IF ~resp.tree_head.some THEN InvalidResponse("missing tree head")
    ELSE IF ~resp.aci.some THEN InvalidResponse("missing ACI monitor proof")
    ELSE Ok([ tree_head |-> resp.tree_head.val,
              aci |-> resp.aci.val,
              e164 |-> resp.e164,
              username_hash |-> resp.username_hash,
              inclusion |-> resp.inclusion ])

\* KeyTransparency::verify_monitor(request, response, context, now)
verify_monitor(a) ==
    LET keys == a.request.keys
        proofs == a.response.proofs
        head == a.response.tree_head.val
        root == a.response.inclusion
    IN  IF /\ Len(proofs) = Len(keys)
           /\ \A i \in DOMAIN keys :
                /\ proofs[i].proofs_ok
                /\ keys[i].search_key \in DOMAIN a.context.data
                /\ keys[i].entry_position = a.context.data[keys[i].search_key].pos
                /\ keys[i].commitment_index = a.context.data[keys[i].search_key].index
           /\ verify_full_tree_head(head, root, a.context.last_tree_head, Some(a.context.last_distinguished_tree_head))
        THEN Ok([ tree_head |-> [tree_size |-> head.tree_size],
                  tree_root |-> root,
                  monitoring_data |->
                    [ k \in {keys[i].search_key : i \in {j \in DOMAIN keys : proofs[j].updated}}
                        |-> a.context.data[k] ] ])
        ELSE KtError

\* Faulty variant: every key is monitored from the first entry of the log.
MonitorKey_FirstEntry(search_key, monitoring_data) ==
    [ search_key |-> search_key,
      entry_position |-> 1,
      commitment_index |-> monitoring_data.index ]

MonitorKey(search_key, monitoring_data) ==
    [ search_key |-> search_key,
      entry_position |-> latest_log_position(monitoring_data),
      commitment_index |-> monitoring_data.index ]

\* Faulty variant: monitor hands no last tree head to the verifier.
MonitorContextLastTreeHead_Absent(last_tree_head) == None

\* The last tree head monitor puts into the MonitorContext.
MonitorContextLastTreeHead(last_tree_head) == Some(last_tree_head)

\* Faulty variant: the proofs are pushed in the order username hash, E.164, ACI.
pushed_proofs_Reversed(c, typed) ==
    (IF c.username_hash.some THEN <<typed.username_hash.val>> ELSE <<>>)
        \o (IF c.e164.some THEN <<typed.e164.val>> ELSE <<>>)
        \o <<typed.aci>>

\* The proofs Kt::monitor pushes, one after each key.
pushed_proofs(c, typed) ==
    <<typed.aci>>
        \o (IF c.e164.some THEN <<typed.e164.val>> ELSE <<>>)
        \o (IF c.username_hash.some THEN <<typed.username_hash.val>> ELSE <<>>)

\* The arguments Kt::monitor hands to verify_monitor.
MonitorArgs(c, typed) ==
    LET acc == c.account_data
        aci_key == Aci_as_search_key(c.aci)
        e164_key == E164_as_search_key(c.e164.val)
        uh_key == UsernameHash_as_search_key(c.username_hash.val)
        search_keys == {aci_key} \cup (IF c.e164.some THEN {e164_key} ELSE {})
                                 \cup (IF c.username_hash.some THEN {uh_key} ELSE {})
    IN  [ request |->
            [ keys |-> <<MonitorKey(aci_key, acc.aci)>>
                        \o (IF c.e164.some THEN <<MonitorKey(e164_key, acc.e164.val)>> ELSE <<>>)
                        \o (IF c.username_hash.some THEN <<MonitorKey(uh_key, acc.username_hash.val)>> ELSE <<>>),
              consistency |-> None ],
          response |->
            [ tree_head |-> Some(typed.tree_head),
              proofs |-> pushed_proofs(c, typed),
              inclusion |-> typed.inclusion ],
          context |->
            [ last_tree_head |-> MonitorContextLastTreeHead(acc.last_tree_head),
              last_distinguished_tree_head |-> c.last_distinguished_tree_head,
              data |-> [ k \in search_keys |->
                            IF k = aci_key THEN acc.aci
                            ELSE IF c.e164.some /\ k = e164_key THEN acc.e164.val
                            ELSE acc.username_hash.val ] ] ]

\* Faulty variant: a missing entry is made up instead of being reported.
take_data_Lenient(monitoring_data, search_key, err_message) ==
    IF search_key \in DOMAIN monitoring_data THEN Ok(monitoring_data[search_key])
    ELSE Ok([index |-> VrfIndex(search_key), pos |-> 1])

take_data(monitoring_data, search_key, err_message) ==
    IF search_key \in DOMAIN monitoring_data THEN Ok(monitoring_data[search_key])
    ELSE InvalidResponse(err_message)

\* Faulty variant: the ACI's data is taken from under the E.164 search key.
AciDataKey_E164(c) ==
    IF c.e164.some THEN E164_as_search_key(c.e164.val) ELSE Aci_as_search_key(c.aci)

\* The search key under which monitor looks up the ACI's updated data.
AciDataKey(c) == Aci_as_search_key(c.aci)

MonitorRequest(c) ==
    RawChatMonitorRequest_new(c.aci, c.e164, c.username_hash, c.account_data, c.last_distinguished_tree_head.tree_size)

DecodeMonitor(resp, c) ==
    LET raw == RawChatSerializedResponse_try_from(resp)
        decoded == decode_response(raw.val)
    IN  IF ~raw.ok THEN raw
        ELSE IF ~decoded.ok THEN decoded
        ELSE TypedMonitorResponse_from_untyped(c.e164.some, c.username_hash.some, decoded.val)

\* Faulty variant: the data taken for the ACI only is returned.
MonitoredAccountData_AciOnly(c, aci_data, e164_data, uh_data, update) ==
    [ aci |-> aci_data.val, e164 |-> None, username_hash |-> None,
      last_tree_head |-> [tree_size |-> update.tree_head.tree_size, root |-> update.tree_root] ]

\* The AccountData a monitor builds from the data it has taken.
MonitoredAccountData(c, aci_data, e164_data, uh_data, update) ==
    [ aci |-> aci_data.val,
      e164 |-> IF c.e164.some THEN Some(e164_data.val) ELSE None,
      username_hash |-> IF c.username_hash.some THEN Some(uh_data.val) ELSE None,
      last_tree_head |-> [tree_size |-> update.tree_head.tree_size, root |-> update.tree_root] ]

\* Kt::monitor from the point where send returns.
Kt_monitor(c, t) ==
    LET sent == Kt_send(t)
        typed == DecodeMonitor(sent.val, c)
        args == MonitorArgs(c, typed.val)
        verified == Error_from_keytrans(verify_monitor(args))
        update == verified.val
        aci_data == take_data(update.monitoring_data, AciDataKey(c), "ACI monitoring data is missing")
        e164_data == take_data(update.monitoring_data, E164_as_search_key(c.e164.val), "E.164 monitoring data is missing")
        uh_data == take_data(update.monitoring_data, UsernameHash_as_search_key(c.username_hash.val), "username hash monitoring data is missing")
    IN  IF ~sent.ok THEN Out(sent, <<>>)
        ELSE IF ~typed.ok THEN Out(typed, <<>>)
        ELSE IF c.e164.some /\ ~c.account_data.e164.some
             THEN Out(InvalidRequest("missing E.164 monitoring data"), <<>>)
        ELSE IF c.username_hash.some /\ ~c.account_data.username_hash.some
             THEN Out(InvalidRequest("missing username hash monitoring data"), <<>>)
        ELSE IF ~verified.ok THEN Out(verified, <<args>>)
        ELSE IF ~aci_data.ok THEN Out(aci_data, <<args>>)
        ELSE IF c.e164.some /\ ~e164_data.ok THEN Out(e164_data, <<args>>)
        ELSE IF c.username_hash.some /\ ~uh_data.ok THEN Out(uh_data, <<args>>)
        ELSE Out(Ok(MonitoredAccountData(c, aci_data, e164_data, uh_data, update)), <<args>>)

-----------------------------------------------------------------------------
(* Wire codec and driver: distinguished *)

\* b"distinguished"
DistinguishedKey == <<100, 105, 115, 116, 105, 110, 103, 117, 105, 115, 104, 101, 100>>

\* Faulty variant: the size is sent without the name of its parameter.
query_string_Unnamed(last_tree_head_size) ==
    IF last_tree_head_size.some THEN <<last_tree_head_size.val>> ELSE <<>>

\* format!("lastTreeHeadSize={n}"), or the empty string
query_string(last_tree_head_size) ==
    IF last_tree_head_size.some THEN <<"lastTreeHeadSize=", last_tree_head_size.val>> ELSE <<>>

RawChatDistinguishedRequest_into(last_tree_head_size) ==
    [ method |-> "GET",
      path |-> <<DISTINGUISHED_PATH, "?">> \o query_string(last_tree_head_size),
      headers |-> common_headers,
      body |-> None ]

distinguished_size(last_distinguished) ==
    IF last_distinguished.some THEN Some(last_distinguished.val.tree_size) ELSE None

DistinguishedRequest(c) == RawChatDistinguishedRequest_into(distinguished_size(c.last_distinguished))

\* Faulty variant: the prior distinguished head is withheld from the verifier.
DistinguishedContextHead_Absent(last_distinguished) == None

\* The reference head distinguished puts into the SearchContext.
DistinguishedContextHead(last_distinguished) == last_distinguished

\* The arguments Kt::distinguished hands to verify_search.
\* Faulty variant: the verifier is asked to include the identity key.
DistinguishedArgs_WithIdentityKey(tree_head, condensed, last_distinguished) ==
    [ request |-> [search_key |-> DistinguishedKey],
      response |-> [condensed |-> condensed, tree_head |-> tree_head],
      context |-> [ last_tree_head |-> None,
                    last_distinguished_tree_head |-> DistinguishedContextHead(last_distinguished),
                    data |-> None ],
      include_identity_key |-> TRUE ]

DistinguishedArgs(tree_head, condensed, last_distinguished) ==
    [ request |-> [search_key |-> DistinguishedKey],
      response |-> [condensed |-> condensed, tree_head |-> tree_head],
      context |-> [ last_tree_head |-> None,
                    last_distinguished_tree_head |-> DistinguishedContextHead(last_distinguished),
                    data |-> None ],
      include_identity_key |-> FALSE ]

DecodeDistinguished(resp) ==
    LET raw == RawChatSerializedResponse_try_from(resp)
    IN  IF ~raw.ok THEN raw ELSE decode_response(raw.val)

\* Kt::distinguished from the point where send returns.
Kt_distinguished(c, t) ==
    LET sent == Kt_send(t)
        decoded == DecodeDistinguished(sent.val)
        args == DistinguishedArgs(decoded.val.tree_head.val, decoded.val.distinguished.val, c.last_distinguished)
        verified == Error_from_keytrans(verify_search(args))
    IN  IF ~sent.ok THEN Out(sent, <<>>)
        ELSE IF ~decoded.ok THEN Out(decoded, <<>>)
        ELSE IF ~decoded.val.tree_head.some
             THEN Out(InvalidResponse("tree head must be present"), <<>>)
        ELSE IF ~decoded.val.distinguished.some
             THEN Out(InvalidResponse("search response must be present"), <<>>)
        ELSE IF ~verified.ok THEN Out(verified, <<args>>)
        ELSE Out(Ok(verified.val.state_update), <<args>>)

-----------------------------------------------------------------------------
(* What the server and the transport may answer *)

OptionOf(S) == {None} \cup {Some(x) : x \in S}

Proofs == {<<>>, <<1>>}
FullTreeHeads == [tree_size : 1..MaxTreeSize, last : Proofs, distinguished : Proofs]

\* A per-identity search response, by what the primitive verifier makes of
\* it: whether its proofs verify, the value it commits to, the root its
\* proofs lead to, the log position of the entry and whether the verified
\* result carries monitoring data.
Condensed(value, pos) ==
    [proofs_ok |-> TRUE, value |-> value, root |-> 1, pos |-> pos, monitor |-> TRUE]

Variants(good, bad_values) ==
    {good, [good EXCEPT !.proofs_ok = FALSE], [good EXCEPT !.monitor = FALSE]}
        \cup {[good EXCEPT !.root = r] : r \in Roots}
        \cup {[good EXCEPT !.value = v] : v \in bad_values}

KeyValue(k) == <<SEARCH_VALUE_PREFIX>> \o PublicKey_serialize(k)
AciValue(aci) == <<SEARCH_VALUE_PREFIX>> \o aci

GoodAci == Condensed(KeyValue(1), 1)
GoodE164 == Condensed(AciValue(TheAci), 2)
GoodUsernameHash == Condensed(AciValue(TheAci), 2)

AciSearchResponses ==
    Variants(GoodAci, {KeyValue(k) : k \in Keys} \cup {<<>>, <<1>> \o PublicKey_serialize(1), AciValue(TheAci)})

E164SearchResponses == Variants(GoodE164, {<<>>, <<1>> \o TheAci, KeyValue(1)})

UsernameHashSearchResponses ==
    Variants(GoodUsernameHash, {<<>>, <<1>> \o TheAci, KeyValue(1), AciValue(AnotherAci)})

SomeOf(S) == {Some(x) : x \in S}

ChatSearchResponse(heads, acis, e164s, username_hashes) ==
    [tree_head : heads, aci : acis, e164 : e164s, username_hash : username_hashes]

\* The search responses the server is taken to send: every shape (each
\* sub-message present or absent, every tree head) with contents that verify,
\* and every pair of contents of two identities' responses next to a third
\* that verifies or is absent.
AnsweringHeads == {h \in FullTreeHeads : h.distinguished # <<>> /\ h.tree_size = MaxTreeSize}

ChatSearchResponses ==
    ChatSearchResponse(OptionOf(FullTreeHeads), OptionOf({GoodAci}), OptionOf({GoodE164}), OptionOf({GoodUsernameHash}))
        \cup ChatSearchResponse(SomeOf(AnsweringHeads), SomeOf(AciSearchResponses), SomeOf(E164SearchResponses), OptionOf({GoodUsernameHash}))
        \cup ChatSearchResponse(SomeOf(AnsweringHeads), SomeOf(AciSearchResponses), OptionOf({GoodE164}), SomeOf(UsernameHashSearchResponses))
        \cup ChatSearchResponse(SomeOf(AnsweringHeads), {Some(GoodAci)}, SomeOf(E164SearchResponses), SomeOf(UsernameHashSearchResponses))

GoodSearchResponse ==
    [ tree_head |-> Some([tree_size |-> MaxTreeSize, last |-> <<>>, distinguished |-> <<1>>]),
      aci |-> Some(GoodAci),
      e164 |-> None,
      username_hash |-> None ]

\* A monitor proof, by what the primitive verifier makes of it: whether it
\* verifies and whether the verified update carries data for its key.
MonitorProofs == [proofs_ok : BOOLEAN, updated : BOOLEAN]
GoodProof == [proofs_ok |-> TRUE, updated |-> TRUE]

\* `inclusion` stands for the root the inclusion hashes lead to.
ChatMonitorResponse(heads, acis, e164s, username_hashes) ==
    [tree_head : heads, aci : acis, e164 : e164s, username_hash : username_hashes, inclusion : Roots]

\* The monitor responses the server is taken to send: every shape with proofs
\* that verify, and every combination of proofs under a tree head that
\* carries both consistency proofs.
ChatMonitorResponses ==
    ChatMonitorResponse(OptionOf(FullTreeHeads), OptionOf({GoodProof}), OptionOf({GoodProof}), OptionOf({GoodProof}))
        \cup ChatMonitorResponse(SomeOf({h \in FullTreeHeads : h.last # <<>> /\ h.distinguished # <<>>}), SomeOf(MonitorProofs), OptionOf(MonitorProofs), OptionOf(MonitorProofs))

GoodMonitorResponse ==
    [ tree_head |-> Some([tree_size |-> MaxTreeSize, last |-> <<1>>, distinguished |-> <<1>>]),
      aci |-> Some(GoodProof),
      e164 |-> None,
      username_hash |-> None,
      inclusion |-> 1 ]

\* The condensed search response of the distinguished key.
GoodDistinguished == Condensed(<<SEARCH_VALUE_PREFIX>>, 1)

\* The distinguished responses the server is taken to send: each part present
\* or absent, the search response verifying or not, under either root.
ChatDistinguishedResponses ==
    [ tree_head : OptionOf(FullTreeHeads),
      distinguished : OptionOf({GoodDistinguished, [GoodDistinguished EXCEPT !.proofs_ok = FALSE]}
                                  \cup {[GoodDistinguished EXCEPT !.root = r] : r \in Roots}) ]

GoodDistinguishedResponse ==
    [ tree_head |-> Some([tree_size |-> MaxTreeSize, last |-> <<>>, distinguished |-> <<1>>]),
      distinguished |-> Some(GoodDistinguished) ]

Undecodable ==
    {None, Some(Garbage), Some(JsonEnvelope(Garbage)), Some(JsonEnvelope(Base64NoPad(Garbage)))}


Answer(status, body) == Ok([status |-> status, body |-> body])
Failure(e) == [ok |-> FALSE, err |-> e]

Transports(messages, good) ==
    {Failure(e) : e \in {"Timeout", "ServiceUnavailable"}}
        \cup {Answer(200, Some(Encoded(m))) : m \in messages}
        \cup {Answer(200, b) : b \in Undecodable}
        \cup {Answer(st, b) : st \in {204, 404, 500}, b \in Undecodable \cup {Some(Encoded(good))}}

-----------------------------------------------------------------------------
(* The caller *)

NoCall == [op |-> "none"]

\* The distinguished head the caller holds from an earlier session.
DistinguishedBefore == [tree_size |-> 1, root |-> 1]

\* AccountData::try_from(StoredAccountData)
AccountData_try_from(stored) ==
    IF stored.aci.some /\ stored.last_tree_head.some /\ stored.last_tree_head.val.tree_head.some
    THEN Some([ aci |-> stored.aci.val,
                e164 |-> stored.e164,
                username_hash |-> stored.username_hash,
                last_tree_head |-> [ tree_size |-> stored.last_tree_head.val.tree_head.val.tree_size,
                                     root |-> stored.last_tree_head.val.root ] ])
    ELSE None

Init ==
    /\ pc = "idle"
    /\ call = NoCall
    /\ request = None
    /\ sends = 0
    /\ response = None
    /\ calls = <<>>
    /\ result = None
    /\ account = None
    /\ dist = DistinguishedBefore

\* The caller invokes Kt::search; the call runs up to its await of the transport.
Search(aci_identity_key, e164, username_hash) ==
    /\ pc = "idle"
    /\ LET c == [ op |-> "search", aci |-> TheAci, aci_identity_key |-> aci_identity_key,
                  e164 |-> e164, username_hash |-> username_hash,
                  stored_account_data |-> account, distinguished_tree_head |-> dist ]
       IN  /\ call' = c
           /\ request' = Some([request |-> SearchRequest(c), timeout |-> chat_timeout])
    /\ sends' = sends + 1
    /\ pc' = "await"
    /\ UNCHANGED <<response, calls, result, account, dist>>

\* The transport answers the suspended search, which then runs to its end.
SearchAnswered ==
    /\ pc = "await"
    /\ call.op = "search"
    /\ \E t \in Transports(ChatSearchResponses, GoodSearchResponse) :
           LET out == Kt_search(call, t)
           IN  /\ result' = Some(out.result)
               /\ calls' = out.calls
               /\ response' = Some(t)
    /\ pc' = "done"
    /\ UNCHANGED <<call, request, sends, account, dist>>

\* The caller takes the result: a successful search replaces the account data.
SearchReturns ==
    /\ pc = "done"
    /\ call.op = "search"
    /\ account' = IF result.val.ok /\ AccountData_try_from(result.val.val.account_data).some
                  THEN AccountData_try_from(result.val.val.account_data)
                  ELSE account
    /\ pc' = "idle"
    /\ call' = NoCall
    /\ request' = None
    /\ sends' = 0
    /\ response' = None
    /\ calls' = <<>>
    /\ result' = None
    /\ UNCHANGED dist

\* The caller invokes Kt::monitor with the account data it holds; a request
\* that cannot be built ends the call at once, otherwise the call runs up to
\* its await of the transport.
Monitor(e164, username_hash) ==
    /\ pc = "idle"
    /\ account.some
    /\ LET c == [ op |-> "monitor", aci |-> TheAci, e164 |-> e164, username_hash |-> username_hash,
                  account_data |-> account.val, last_distinguished_tree_head |-> dist ]
           raw == MonitorRequest(c)
       IN  /\ call' = c
           /\ IF raw.ok
              THEN /\ request' = Some([request |-> RawChatMonitorRequest_into(raw.val), timeout |-> chat_timeout])
                   /\ sends' = sends + 1
                   /\ pc' = "await"
                   /\ result' = result
              ELSE /\ request' = request
                   /\ sends' = sends
                   /\ pc' = "done"
                   /\ result' = Some(raw)
    /\ UNCHANGED <<response, calls, account, dist>>

\* The transport answers the suspended monitor, which then runs to its end.
MonitorAnswered ==
    /\ pc = "await"
    /\ call.op = "monitor"
    /\ \E t \in Transports(ChatMonitorResponses, GoodMonitorResponse) :
           LET out == Kt_monitor(call, t)
           IN  /\ result' = Some(out.result)
               /\ calls' = out.calls
               /\ response' = Some(t)
    /\ pc' = "done"
    /\ UNCHANGED <<call, request, sends, account, dist>>

\* The caller takes the result: a successful monitor replaces the account data.
MonitorReturns ==
    /\ pc = "done"
    /\ call.op = "monitor"
    /\ account' = IF result.val.ok THEN Some(result.val.val) ELSE account
    /\ pc' = "idle"
    /\ call' = NoCall
    /\ request' = None
    /\ sends' = 0
    /\ response' = None
    /\ calls' = <<>>
    /\ result' = None
    /\ UNCHANGED dist

\* The caller invokes Kt::distinguished, with the distinguished head it holds
\* or without one; the call runs up to its await of the transport.
Distinguished(last_distinguished) ==
    /\ pc = "idle"
    /\ LET c == [op |-> "distinguished", last_distinguished |-> last_distinguished]
       IN  /\ call' = c
           /\ request' = Some([request |-> DistinguishedRequest(c), timeout |-> chat_timeout])
    /\ sends' = sends + 1
    /\ pc' = "await"
    /\ UNCHANGED <<response, calls, result, account, dist>>

\* The transport answers the suspended call, which then runs to its end.
DistinguishedAnswered ==
    /\ pc = "await"
    /\ call.op = "distinguished"
    /\ \E t \in Transports(ChatDistinguishedResponses, GoodDistinguishedResponse) :
           LET out == Kt_distinguished(call, t)
           IN  /\ result' = Some(out.result)
               /\ calls' = out.calls
               /\ response' = Some(t)
    /\ pc' = "done"
    /\ UNCHANGED <<call, request, sends, account, dist>>

\* The caller takes the result: a verified head becomes its distinguished head.
DistinguishedReturns ==
    /\ pc = "done"
    /\ call.op = "distinguished"
    /\ dist' = IF result.val.ok
               THEN [tree_size |-> result.val.val.tree_head.tree_size, root |-> result.val.val.tree_root]
               ELSE dist
    /\ pc' = "idle"
    /\ call' = NoCall
    /\ request' = None
    /\ sends' = 0
    /\ response' = None
    /\ calls' = <<>>
    /\ result' = None
    /\ UNCHANGED account

Next ==
    \/ \E k \in Keys, e \in OptionOf({<<TheE164, <<3>>>>}), u \in OptionOf({TheUsernameHash}) : Search(k, e, u)
    \/ SearchAnswered
    \/ SearchReturns
    \/ \E e \in OptionOf({TheE164}), u \in OptionOf({TheUsernameHash}) : Monitor(e, u)
    \/ MonitorAnswered
    \/ MonitorReturns
    \/ \E d \in {None, Some(dist)} : Distinguished(d)
    \/ DistinguishedAnswered
    \/ DistinguishedReturns

Spec == Init /\ [][Next]_vars

-----------------------------------------------------------------------------
(* verify_chat_search_response called on its own, as the unit tests call it *)

\* Account data of an earlier session.
StoredBefore ==
    [ aci |-> [index |-> VrfIndex(Aci_as_search_key(TheAci)), pos |-> 1],
      e164 |-> Some([index |-> VrfIndex(E164_as_search_key(TheE164)), pos |-> 2]),
      username_hash |-> Some([index |-> VrfIndex(UsernameHash_as_search_key(TheUsernameHash)), pos |-> 2]),
      last_tree_head |-> [tree_size |-> 2, root |-> 1] ]

InitVerify ==
    /\ pc = "idle"
    /\ call \in [ op : {"verify"}, aci : {TheAci},
                   e164 : OptionOf({TheE164}),
                   username_hash : OptionOf({TheUsernameHash}),
                   stored_account_data : OptionOf({StoredBefore}),
                   chat_search_response :
                       [ full_tree_head : FullTreeHeads,
                         aci_search_response : {GoodAci},
                         e164_search_response : OptionOf({GoodE164}),
                         username_hash_search_response : OptionOf({GoodUsernameHash}) ],
                   last_distinguished_tree_head : OptionOf({DistinguishedBefore}) ]
    /\ request = None
    /\ sends = 0
    /\ response = None
    /\ calls = <<>>
    /\ result = None
    /\ account = None
    /\ dist = DistinguishedBefore

Verify ==
    /\ pc = "idle"
    /\ call.op = "verify"
    /\ LET out == verify_chat_search_response(call.aci, call.e164, call.username_hash, call.stored_account_data, call.chat_search_response, call.last_distinguished_tree_head)
       IN  /\ result' = Some(out.result)
           /\ calls' = out.calls
    /\ pc' = "done"
    /\ UNCHANGED <<call, request, sends, response, account, dist>>

SpecVerify == InitVerify /\ [][Verify]_vars

-----------------------------------------------------------------------------
(* Vocabulary of the properties *)

SearchDone == pc = "done" /\ call.op = "search"
MonitorDone == pc = "done" /\ call.op = "monitor"

\* The transport delivered a response with a success status whose body
\* decodes down to a protobuf message.
Decodable(t) ==
    /\ t.ok
    /\ t.val.status \in 200..299
    /\ t.val.body.some
    /\ t.val.body.val.layer = "json"
    /\ t.val.body.val.serializedResponse.layer = "base64"
    /\ t.val.body.val.serializedResponse.bytes.layer = "protobuf"

Decoded == response.some /\ Decodable(response.val)
Message == response.val.val.body.val.serializedResponse.bytes.msg
Returned == result.val

Optional == {"e164", "username_hash"}
Ids == {"aci"} \cup Optional
Requested(i) == i = "aci" \/ call[i].some

IsInvalidResponse(r, m) == ~r.ok /\ r.err = "InvalidResponse" /\ r.msg = m
IsVerificationFailed(r) == ~r.ok /\ r.err = "VerificationFailed"

\* C1: in search and monitor, a decoded response that carries a sub-response
\* or proof for an optional identity the request did not include makes the
\* call fail with InvalidResponse.
UnrequestedPresent == \E i \in Optional : ~call[i].some /\ Message[i].some

C1_UnrequestedIdentityRejected ==
    ((SearchDone \/ MonitorDone) /\ Decoded /\ UnrequestedPresent)
        => (~Returned.ok /\ Returned.err = "InvalidResponse")

C1_Witness == MonitorDone /\ Decoded /\ UnrequestedPresent /\ ~Returned.ok

\* C2: in search and monitor, a decoded response that lacks the sub-response
\* or proof of an optional identity the request included makes the call fail
\* with InvalidResponse("request/response optionality mismatch").
RequestedAbsent == \E i \in Optional : call[i].some /\ ~Message[i].some

C2_RequestedIdentityMissingRejected ==
    ((SearchDone \/ MonitorDone) /\ Decoded /\ RequestedAbsent)
        => IsInvalidResponse(Returned, "request/response optionality mismatch")

C2_Witness ==
    /\ SearchDone /\ Decoded
    /\ call.e164.some /\ call.username_hash.some
    /\ Message.e164.some /\ ~Message.username_hash.some
    /\ ~Message.tree_head.some
    /\ IsInvalidResponse(Returned, "request/response optionality mismatch")

\* The search key under which identity i of the running search is verified.
SearchKeyOf(i) ==
    CASE i = "aci" -> Aci_as_search_key(call.aci)
      [] i = "e164" -> E164_as_search_key(call.e164.val[1])
      [] i = "username_hash" -> UsernameHash_as_search_key(call.username_hash.val)

\* The primitive verifier was invoked for identity i and accepted.
VerifiedBy(i) ==
    \E k \in DOMAIN calls :
        calls[k].request.search_key = SearchKeyOf(i) /\ verify_search(calls[k]).ok

AllRequestedVerified == \A i \in Ids : Requested(i) => VerifiedBy(i)

RootOf(i) == Message[i].val.root
ValueOf(i) == Message[i].val.value

RootsAgree == \A i \in Ids, j \in Ids : (Requested(i) /\ Requested(j)) => RootOf(i) = RootOf(j)

\* C3: a successful search has equal roots for all requested identities, and
\* when every requested identity verifies but two roots differ the search
\* fails with InvalidResponse("mismatching tree roots").
C3_RootsEqual ==
    /\ (SearchDone /\ Returned.ok) => RootsAgree
    /\ (SearchDone /\ Decoded /\ AllRequestedVerified /\ ~RootsAgree)
          => IsInvalidResponse(Returned, "mismatching tree roots")

C3_Witness ==
    /\ SearchDone /\ Decoded /\ AllRequestedVerified
    /\ call.e164.some /\ call.username_hash.some
    /\ RootOf("aci") = RootOf("e164") /\ RootOf("aci") # RootOf("username_hash")
    /\ IsInvalidResponse(Returned, "mismatching tree roots")

GoodPrefix(v) == Len(v) > 0 /\ v[1] = 0

\* What a successful search returned for identity i.
ReturnedFor(i) ==
    CASE i = "aci" -> PublicKey_serialize(Returned.val.aci_identity_key)
      [] i = "e164" -> Returned.val.aci_for_e164.val
      [] i = "username_hash" -> Returned.val.aci_for_username_hash.val

ExtractedAfterPrefix ==
    \A i \in Ids : Requested(i) => (GoodPrefix(ValueOf(i)) /\ ReturnedFor(i) = Tail(ValueOf(i)))

BadPrefixIds == {i \in Ids : Requested(i) /\ ~GoodPrefix(ValueOf(i))}

\* The order in which search extracts the values.
Rank(i) == CASE i = "aci" -> 1 [] i = "e164" -> 2 [] i = "username_hash" -> 3

PayloadParses(i) ==
    IF i = "aci" THEN Len(ValueOf(i)) = 3 /\ ValueOf(i)[2] = DJB_TYPE
    ELSE Len(ValueOf(i)) = 1 + Len(TheAci)

\* Every identity extracted before the first one with a bad prefix parses.
EarlierParse ==
    \A i \in Ids :
        (Requested(i) /\ \E b \in BadPrefixIds : Rank(i) < Rank(b) /\ (\A o \in BadPrefixIds : Rank(b) <= Rank(o)))
            => PayloadParses(i)

\* C4 as stated: a successful search extracted every value after a 0x00
\* prefix, and a verified value that is empty or starts with another byte
\* makes search fail with InvalidResponse("bad value format").
C4_Original ==
    /\ (SearchDone /\ Returned.ok) => ExtractedAfterPrefix
    /\ (SearchDone /\ Decoded /\ AllRequestedVerified /\ BadPrefixIds # {})
          => IsInvalidResponse(Returned, "bad value format")

\* C4 as amended: such a value makes search fail with InvalidResponse, and
\* the message is "bad value format" when the roots agree and every value
\* extracted before it (order ACI, E.164, username hash) parses.
C4_PrefixChecked ==
    /\ (SearchDone /\ Returned.ok) => ExtractedAfterPrefix
    /\ (SearchDone /\ Decoded /\ AllRequestedVerified /\ BadPrefixIds # {})
          => /\ ~Returned.ok /\ Returned.err = "InvalidResponse"
             /\ (RootsAgree /\ EarlierParse) => Returned.msg = "bad value format"

C4_Witness ==
    /\ SearchDone /\ Decoded /\ AllRequestedVerified
    /\ call.e164.some
    /\ ValueOf("e164") = <<>>
    /\ IsInvalidResponse(Returned, "bad value format")

\* C5 as stated: a successful search returns the identity key the caller
\* supplied.
C5_Original == (SearchDone /\ Returned.ok) => Returned.val.aci_identity_key = call.aci_identity_key

\* C5 as amended: a successful search returns the identity key that follows
\* the prefix in the verified ACI value of the response; the supplied key is
\* sent as aciIdentityKey and is not compared with the returned one.
C5_KeyFromVerifiedValue ==
    /\ (SearchDone /\ Returned.ok)
          => PublicKey_serialize(Returned.val.aci_identity_key) = Tail(ValueOf("aci"))
    /\ (call.op = "search" /\ pc # "idle")
          => request.val.request.body.val.aciIdentityKey
                = Base64("STANDARD", PublicKey_serialize(call.aci_identity_key))

C5_Witness ==
    /\ SearchDone /\ Returned.ok
    /\ Returned.val.aci_identity_key # call.aci_identity_key

\* What monitor was given and what the server answered.
PriorSize == call.account_data.last_tree_head.tree_size
AnsweredSize == Message.tree_head.val.tree_size

\* The verifier was invoked with a tree head smaller than the prior one.
Shrinks == Len(calls) = 1 /\ calls[1].response.tree_head.val.tree_size < PriorSize

\* C6: a successful monitor returns account data whose tree size is at least
\* the prior tree size, and a monitor whose answered tree head is smaller
\* than the prior one fails with VerificationFailed.
C6_MonitorNeverShrinks ==
    /\ (MonitorDone /\ Returned.ok) => Returned.val.last_tree_head.tree_size >= PriorSize
    /\ (MonitorDone /\ Shrinks) => IsVerificationFailed(Returned)

\* A shrinking head is the only thing wrong with the answer.
C6_Witness ==
    /\ MonitorDone /\ Decoded /\ Shrinks
    /\ AnsweredSize < PriorSize
    /\ Message.tree_head.val.last # <<>> /\ Message.tree_head.val.distinguished # <<>>
    /\ Message.inclusion = call.last_distinguished_tree_head.root
    /\ \A k \in DOMAIN calls[1].response.proofs : calls[1].response.proofs[k] = GoodProof
    /\ IsVerificationFailed(Returned)

\* C7: along a chain of successful search and monitor calls, each given the
\* account data the previous one returned, the tree size of the account data
\* never decreases.
C7_TreeSizeMonotone ==
    [][(account.some /\ account'.some)
          => account'.val.last_tree_head.tree_size >= account.val.last_tree_head.tree_size]_vars

C7_Witness ==
    /\ SearchDone /\ Returned.ok
    /\ call.stored_account_data.some
    /\ AccountData_try_from(Returned.val.account_data).some
    /\ AccountData_try_from(Returned.val.account_data).val.last_tree_head.tree_size
          > call.stored_account_data.val.last_tree_head.tree_size

ShapeMatches == \A i \in Optional : call[i].some = Message[i].some

SearchChecksPassed ==
    /\ Decoded /\ Message.tree_head.some /\ Message.aci.some /\ ShapeMatches
    /\ Len(calls) = Cardinality({i \in Ids : Requested(i)})
    /\ \A k \in DOMAIN calls : verify_search(calls[k]).ok
    /\ AllRequestedVerified
    /\ RootsAgree
    /\ \A i \in Ids : Requested(i) => (GoodPrefix(ValueOf(i)) /\ PayloadParses(i))

MonitorChecksPassed ==
    /\ Decoded /\ Message.tree_head.some /\ Message.aci.some /\ ShapeMatches
    /\ Len(calls) = 1 /\ verify_monitor(calls[1]).ok
    /\ \A i \in Ids : Requested(i) => Message[i].val.updated

\* An error carries no account data; a success has passed every check.
NoPartialResult ==
    /\ ((SearchDone \/ MonitorDone) /\ ~Returned.ok) => DOMAIN Returned \cap {"val", "account_data"} = {}
    /\ (SearchDone /\ Returned.ok) => SearchChecksPassed
    /\ (MonitorDone /\ Returned.ok) => MonitorChecksPassed

\* The account data the caller holds changes only when a call returned Ok.
ChangesOnlyOnOk == (account' # account) => (pc = "done" /\ Returned.ok)

\* C8: a search or monitor that ends in an error yields no account data, and
\* account data is produced only when every check of the call has passed.
C8_NoUpdateOnError == [](NoPartialResult) /\ [][ChangesOnlyOnOk]_vars

\* A later sub-query fails after an earlier one has verified.
C8_Witness ==
    /\ SearchDone /\ account.some
    /\ Len(calls) >= 2 /\ verify_search(calls[1]).ok
    /\ IsVerificationFailed(Returned)

VerifyDone == pc = "done" /\ call.op = "verify"
Typed == call.chat_search_response

\* Apart from its consistency proofs the response is valid for the request:
\* it answers exactly the requested identities, every entry lies inside the
\* tree, and the tree is at least as large as the heads the caller knows.
OtherwiseValid ==
    /\ call.e164.some = Typed.e164_search_response.some
    /\ call.username_hash.some = Typed.username_hash_search_response.some
    /\ Typed.aci_search_response.pos <= Typed.full_tree_head.tree_size
    /\ call.e164.some => Typed.e164_search_response.val.pos <= Typed.full_tree_head.tree_size
    /\ call.username_hash.some => Typed.username_hash_search_response.val.pos <= Typed.full_tree_head.tree_size
    /\ call.stored_account_data.some
          => call.stored_account_data.val.last_tree_head.tree_size <= Typed.full_tree_head.tree_size
    /\ call.last_distinguished_tree_head.some
          => call.last_distinguished_tree_head.val.tree_size <= Typed.full_tree_head.tree_size

LastProofMatches == (Typed.full_tree_head.last # <<>>) = call.stored_account_data.some
DistinguishedProofMatches ==
    (Typed.full_tree_head.distinguished # <<>>) = call.last_distinguished_tree_head.some

\* C9: verification of an otherwise valid search response succeeds exactly
\* when the "last" proof is non-empty iff prior account data is supplied and
\* the "distinguished" proof is non-empty iff a distinguished head is
\* supplied; every mismatch yields VerificationFailed.
C9_ProofsMatchReferenceHeads ==
    (VerifyDone /\ OtherwiseValid)
        => /\ Returned.ok = (LastProofMatches /\ DistinguishedProofMatches)
           /\ ~(LastProofMatches /\ DistinguishedProofMatches) => IsVerificationFailed(Returned)

\* The "last" proof is blank although prior account data is supplied.
C9_Witness ==
    /\ VerifyDone /\ OtherwiseValid
    /\ call.stored_account_data.some /\ Typed.full_tree_head.last = <<>>
    /\ DistinguishedProofMatches
    /\ IsVerificationFailed(Returned)

NoPrior == call.op = "search" /\ ~call.stored_account_data.some

\* A valid answer to a first search: its "last" proof is empty.
ValidFirstAnswer ==
    /\ Decoded /\ Message.tree_head.some /\ Message.aci.some /\ ShapeMatches
    /\ Message.tree_head.val.last = <<>>
    /\ Message.tree_head.val.distinguished # <<>>
    /\ RootsAgree
    /\ Extends(call.distinguished_tree_head, Message.tree_head.val.tree_size, RootOf("aci"))
    /\ \A i \in Ids : Requested(i) =>
          /\ Message[i].val.proofs_ok /\ Message[i].val.monitor
          /\ Message[i].val.pos <= Message.tree_head.val.tree_size
          /\ GoodPrefix(ValueOf(i)) /\ PayloadParses(i)

\* Monitoring data as a first search creates it for identity i.
FreshlyCreated(i) == Some([index |-> VrfIndex(SearchKeyOf(i)), pos |-> Message[i].val.pos])

FreshAccountData ==
    [ aci |-> FreshlyCreated("aci"),
      e164 |-> IF call.e164.some THEN FreshlyCreated("e164") ELSE None,
      username_hash |-> IF call.username_hash.some THEN FreshlyCreated("username_hash") ELSE None,
      last_tree_head |-> Some([ tree_head |-> Some([tree_size |-> Message.tree_head.val.tree_size]),
                                root |-> RootOf("aci") ]) ]

\* C10: a search without prior account data sends no lastTreeHeadSize, hands
\* neither a last tree head nor prior monitoring data to the verifier, and
\* succeeds on a valid response whose "last" proof is empty, returning
\* freshly created account data.
C10_FirstSearch ==
    /\ (NoPrior /\ pc # "idle") => "lastTreeHeadSize" \notin DOMAIN request.val.request.body.val
    /\ (NoPrior /\ pc = "done")
          => \A k \in DOMAIN calls :
                calls[k].context.last_tree_head = None /\ calls[k].context.data = None
    /\ (NoPrior /\ pc = "done" /\ ValidFirstAnswer)
          => (Returned.ok /\ Returned.val.account_data = FreshAccountData)

C10_Witness ==
    /\ NoPrior /\ pc = "done" /\ ValidFirstAnswer
    /\ call.e164.some /\ Len(calls) = 2
    /\ Returned.ok /\ Returned.val.account_data = FreshAccountData

DistinguishedDone == pc = "done" /\ call.op = "distinguished"

\* A valid answer to a distinguished call made without a prior head: it
\* carries no consistency proof.
ValidUnanchoredAnswer ==
    /\ Decoded /\ Message.tree_head.some /\ Message.distinguished.some
    /\ Message.tree_head.val.last = <<>> /\ Message.tree_head.val.distinguished = <<>>
    /\ Message.distinguished.val.proofs_ok
    /\ Message.distinguished.val.pos <= Message.tree_head.val.tree_size

\* C11: distinguished called with a prior head returns Ok only if the
\* response carries a non-empty distinguished consistency proof that verifies
\* against that head; called without one it succeeds on a valid response, and
\* the verifier is given no head to verify a proof against.
C11_DistinguishedAnchored ==
    /\ (DistinguishedDone /\ call.last_distinguished.some /\ Returned.ok)
          => /\ Message.tree_head.val.distinguished # <<>>
             /\ calls[1].context.last_distinguished_tree_head = call.last_distinguished
             /\ Extends(call.last_distinguished.val, Message.tree_head.val.tree_size, Message.distinguished.val.root)
             /\ Returned.val.tree_head.tree_size >= call.last_distinguished.val.tree_size
    /\ (DistinguishedDone /\ ~call.last_distinguished.some /\ ValidUnanchoredAnswer)
          => /\ Returned.ok
             /\ calls[1].context.last_distinguished_tree_head = None
             /\ calls[1].context.last_tree_head = None

C11_Witness ==
    /\ DistinguishedDone /\ call.last_distinguished.some /\ Returned.ok
    /\ Message.tree_head.val.distinguished # <<>>
    /\ Returned.val.tree_head.tree_size > call.last_distinguished.val.tree_size

IsInvalidRequest(r, m) == ~r.ok /\ r.err = "InvalidRequest" /\ r.msg = m

\* The optional identities monitor is asked for are not the ones the account
\* data has monitoring data for.
MonitorMismatch == \E i \in Optional : call[i].some # call.account_data[i].some

\* C12: monitor returns InvalidRequest whenever the optional identities
\* requested differ, in either direction, from those with monitoring data in
\* the supplied account data.
C12_MonitorAccountDataMismatch ==
    (MonitorDone /\ MonitorMismatch)
        => (~Returned.ok /\ Returned.err = "InvalidRequest" /\ sends = 0 /\ ~response.some)

\* Data is present for an identity that is not requested.
C12_Witness ==
    /\ MonitorDone /\ ~call.e164.some /\ call.account_data.e164.some
    /\ call.username_hash.some = call.account_data.username_hash.some
    /\ ~Returned.ok /\ Returned.err = "InvalidRequest"

E164WithoutData == call.e164.some /\ ~call.account_data.e164.some

\* C13 as stated: monitor for ACI + E.164 with account data that has no
\* E.164 monitoring data fails with InvalidRequest("missing E.164 monitoring
\* data").
C13_Original ==
    (MonitorDone /\ E164WithoutData) => IsInvalidRequest(Returned, "missing E.164 monitoring data")

\* C13 as amended: such a monitor fails before anything is sent, with
\* InvalidRequest("account data does not match the monitor request"), and no
\* monitor ends with the message "missing E.164 monitoring data".
C13_MismatchReportedFirst ==
    /\ (MonitorDone /\ E164WithoutData)
          => (IsInvalidRequest(Returned, "account data does not match the monitor request") /\ sends = 0)
    /\ MonitorDone => ~IsInvalidRequest(Returned, "missing E.164 monitoring data")

C13_Witness ==
    /\ MonitorDone /\ E164WithoutData /\ ~call.username_hash.some
    /\ IsInvalidRequest(Returned, "account data does not match the monitor request")

AnyDone == pc = "done" /\ call.op \in {"search", "distinguished", "monitor"}

\* The transport delivered a response, and its status.
Answered == response.some /\ response.val.ok
Status == response.val.val.status
Body == response.val.val.body

\* The first stage at which the body fails to decode, by its tag.
DecodeFailure ==
    IF ~Body.some THEN "missing body"
    ELSE IF Body.val.layer # "json" THEN "invalid JSON"
    ELSE IF Body.val.serializedResponse.layer # "base64" THEN "invalid base64"
    ELSE IF Body.val.serializedResponse.bytes.layer # "protobuf"
         THEN "invalid search response protobuf encoding"
    ELSE "none"

DecodeTags ==
    {"missing body", "invalid JSON", "invalid base64", "invalid search response protobuf encoding"}

\* C14: in all three operations a response with a success status is decoded
\* in the order JSON envelope, base64, protobuf; the first failing stage ends
\* the call with InvalidResponse carrying that stage's tag, and a body that
\* decodes gives none of these errors.
C14_DecodingOrder ==
    /\ (AnyDone /\ Answered /\ Status \in 200..299 /\ DecodeFailure # "none")
          => (IsInvalidResponse(Returned, DecodeFailure) /\ calls = <<>>)
    /\ (AnyDone /\ Decoded)
          => ~(~Returned.ok /\ Returned.err = "InvalidResponse" /\ Returned.msg \in DecodeTags)

C14_Witness ==
    /\ DistinguishedDone /\ Answered /\ Status \in 200..299
    /\ DecodeFailure = "invalid search response protobuf encoding"
    /\ IsInvalidResponse(Returned, "invalid search response protobuf encoding")

\* C15: a response with a non-success status ends the operation with
\* RequestFailed carrying that status, whatever its body holds, and nothing
\* is decoded or verified.
C15_BadStatus ==
    (AnyDone /\ Answered /\ Status \notin 200..299)
        => (Returned = RequestFailed(Status) /\ calls = <<>>)

C15_Witness ==
    /\ SearchDone /\ Answered /\ Status = 404
    /\ Body = Some(Encoded(GoodSearchResponse))
    /\ Returned = RequestFailed(404)

\* What holds in every state of a call.
SentOnce ==
    /\ sends <= 1
    /\ request.some => request.val.timeout = chat_timeout
    /\ (AnyDone /\ response.some /\ ~response.val.ok)
          => /\ ~Returned.ok /\ Returned.err = "ChatServiceError"
             /\ Returned.source = response.val.err
             /\ calls = <<>>

\* A call that has started sends nothing more.
NoResend == (pc # "idle" /\ pc' # "idle") => sends' = sends

\* C16: every call invokes the transport at most once, with chat_timeout, and
\* never again after a failure; a transport error is returned as
\* ChatServiceError carrying that error, with nothing decoded or verified.
C16_SingleSend == [](SentOnce) /\ [][NoResend]_vars

C16_Witness ==
    /\ MonitorDone /\ response.some /\ ~response.val.ok
    /\ response.val.err = "ServiceUnavailable"
    /\ Returned.err = "ChatServiceError" /\ Returned.source = "ServiceUnavailable"
    /\ sends = 1

IsRejected(r) == ~r.ok /\ r.err = "InvalidResponse"
SearchOrMonitorDecoded == (SearchDone \/ MonitorDone) /\ Decoded

MissingTags ==
    {"ACI monitoring data is missing", "E.164 monitoring data is missing",
     "username hash monitoring data is missing"}

\* Every check of search before the account data is assembled has passed.
VerifiedAndExtracted ==
    /\ SearchDone /\ Decoded /\ Message.tree_head.some /\ Message.aci.some /\ ShapeMatches
    /\ AllRequestedVerified /\ RootsAgree
    /\ \A i \in Ids : Requested(i) => (GoodPrefix(ValueOf(i)) /\ PayloadParses(i))

Unmonitored == {i \in Ids : Requested(i) /\ ~Message[i].val.monitor}

\* C18 as stated: a search in which the verified result of a requested
\* identity carries no monitoring data fails with InvalidResponse("<id>
\* monitoring data is missing"), so the account data of a successful search
\* has monitoring data for the ACI and for every requested identity.
C18_Original ==
    /\ (VerifiedAndExtracted /\ Unmonitored # {})
          => (IsRejected(Returned) /\ Returned.msg \in MissingTags)
    /\ (SearchDone /\ Returned.ok)
          => \A i \in Ids : Requested(i) => Returned.val.account_data[i].some

\* A successful search hands back account data without the ACI's monitoring
\* data.
C18_Witness ==
    /\ VerifiedAndExtracted /\ "aci" \in Unmonitored
    /\ Returned.ok /\ ~Returned.val.account_data.aci.some

\* The search key under which identity i of the running monitor is tracked.
MonitorKeyOf(i) ==
    CASE i = "aci" -> Aci_as_search_key(call.aci)
      [] i = "e164" -> E164_as_search_key(call.e164.val)
      [] i = "username_hash" -> UsernameHash_as_search_key(call.username_hash.val)

MonitorVerified == MonitorDone /\ Len(calls) = 1 /\ verify_monitor(calls[1]).ok
Update == verify_monitor(calls[1]).val
Untracked == {i \in Ids : Requested(i) /\ MonitorKeyOf(i) \notin DOMAIN Update.monitoring_data}

\* C19: a monitor whose verified update has no entry under the search key of
\* the ACI or of a requested identity fails with InvalidResponse, and a
\* successful monitor returns for each identity the entry under its own key.
C19_MonitorDataByKey ==
    /\ (MonitorVerified /\ Untracked # {})
          => (IsRejected(Returned) /\ Returned.msg \in MissingTags)
    /\ (MonitorDone /\ Returned.ok)
          => /\ Returned.val.aci = Update.monitoring_data[MonitorKeyOf("aci")]
             /\ \A i \in Optional :
                   Returned.val[i] = IF call[i].some
                                     THEN Some(Update.monitoring_data[MonitorKeyOf(i)])
                                     ELSE None

C19_Witness ==
    /\ MonitorVerified /\ call.e164.some
    /\ Untracked = {"e164"}
    /\ IsInvalidResponse(Returned, "E.164 monitoring data is missing")

\* C20: a successful monitor whose tree size is strictly greater than the
\* prior one returns the ACI's prior log position.
C20_AciPositionStable ==
    (MonitorDone /\ Returned.ok /\ Returned.val.last_tree_head.tree_size > PriorSize)
        => Returned.val.aci.pos = call.account_data.aci.pos

C20_Witness ==
    /\ MonitorDone /\ Returned.ok /\ call.e164.some
    /\ Returned.val.last_tree_head.tree_size > PriorSize
    /\ Returned.val.aci.pos = call.account_data.aci.pos
    /\ Returned.val.e164.val.pos # Returned.val.aci.pos

EqualSizeMonitor ==
    MonitorDone /\ Returned.ok /\ Returned.val.last_tree_head.tree_size = PriorSize

\* C21: a successful monitor whose updated tree size equals the prior tree
\* size returns account data equal to the supplied account data in every
\* field, so the caller that stores it holds what it held before.
C21_EqualSizeMonitorIsIdentity ==
    /\ [](EqualSizeMonitor => Returned.val = call.account_data)
    /\ [][EqualSizeMonitor => account' = account]_vars

C21_Witness ==
    /\ EqualSizeMonitor
    /\ call.e164.some /\ call.username_hash.some
    /\ Returned.val = call.account_data
    /\ account = Some(Returned.val)

\* The value the primitive verifier returned for identity i of the search.
VerifiedValueOf(i) ==
    LET k == CHOOSE k \in DOMAIN calls : calls[k].request.search_key = SearchKeyOf(i)
    IN  verify_search(calls[k]).val.value

\* C22: a successful search returns aci_for_e164 exactly when an E.164 was
\* requested and aci_for_username_hash exactly when a username hash was
\* requested, and the identity key and each mapped ACI are the payload of the
\* value verified for that same identity.
C22_ResultPerIdentity ==
    (SearchDone /\ Returned.ok)
        => /\ Returned.val.aci_for_e164.some = call.e164.some
           /\ Returned.val.aci_for_username_hash.some = call.username_hash.some
           /\ \A i \in Ids :
                 Requested(i) => (VerifiedBy(i) /\ ReturnedFor(i) = Tail(VerifiedValueOf(i)))

C22_Witness ==
    /\ SearchDone /\ Returned.ok
    /\ call.e164.some /\ call.username_hash.some
    /\ Returned.val.aci_for_e164 = Some(TheAci)
    /\ Returned.val.aci_for_username_hash = Some(AnotherAci)

C22_WitnessAciOnly ==
    /\ SearchDone /\ Returned.ok
    /\ ~call.e164.some /\ ~call.username_hash.some
    /\ ~Returned.val.aci_for_e164.some /\ ~Returned.val.aci_for_username_hash.some

-----------------------------------------------------------------------------
(* Search keys computed on their own *)

\* The identities whose search keys are computed, each with its kind; their
\* bytes are those that occur in search keys: '+', '1', 'a', 'n', 'u'.
Identities ==
    [kind : {"aci"}, val : {<<b>> : b \in {43, 49, 97, 110, 117}}]
        \cup [kind : {"e164"}, val : {1, 10, 18, 100}]
        \cup [kind : {"username_hash"}, val : UNION {[1..n -> {43, 49, 97}] : n \in 0..MaxHashLen}]

\* SearchKey::as_search_key, by the implementation of the identity's type.
as_search_key(id) ==
    CASE id.kind = "aci" -> Aci_as_search_key(id.val)
      [] id.kind = "e164" -> E164_as_search_key(id.val)
      [] id.kind = "username_hash" -> UsernameHash_as_search_key(id.val)

InitKeys ==
    /\ pc = "idle"
    /\ call \in [op : {"as_search_key"}, left : Identities, right : Identities]
    /\ request = None
    /\ sends = 0
    /\ response = None
    /\ calls = <<>>
    /\ result = None
    /\ account = None
    /\ dist = DistinguishedBefore

\* The search keys of two identities are computed.
AsSearchKey ==
    /\ pc = "idle"
    /\ call.op = "as_search_key"
    /\ result' = Some([left |-> as_search_key(call.left), right |-> as_search_key(call.right)])
    /\ pc' = "done"
    /\ UNCHANGED <<call, request, sends, response, calls, account, dist>>

SpecKeys == InitKeys /\ [][AsSearchKey]_vars

KeysDone == pc = "done" /\ call.op = "as_search_key"

PrefixOfKind(kind) ==
    CASE kind = "aci" -> 97 [] kind = "e164" -> 110 [] kind = "username_hash" -> 117

\* C23: the search key of an identity starts with 'a' for an ACI, 'n' for an
\* E.164 and 'u' for a username hash, and two identities that differ in kind
\* or in value never have the same search key.
C23_SearchKeysDistinct ==
    KeysDone
        => /\ Returned.left[1] = PrefixOfKind(call.left.kind)
           /\ Returned.right[1] = PrefixOfKind(call.right.kind)
           /\ (call.left.kind # call.right.kind \/ call.left.val # call.right.val)
                  => (Returned.left # Returned.right)

\* An E.164 and a username hash whose search keys differ in the prefix only.
C23_Witness ==
    /\ KeysDone
    /\ call.left.kind = "e164" /\ call.right.kind = "username_hash"
    /\ Tail(Returned.left) = Tail(Returned.right)
    /\ Returned.left # Returned.right

\* A search that has sent its request, and the JSON object it sent.
SearchSent == pc \in {"await", "done"} /\ call.op = "search"
SentBody == request.val.request.body.val

\* The reference heads of verifier invocation k are the heads whose sizes
\* the request carried.
HeadsAsSent(k) ==
    LET ctx == calls[k].context
    IN  /\ ctx.last_tree_head.some = ("lastTreeHeadSize" \in DOMAIN SentBody)
        /\ ctx.last_tree_head.some
              => /\ ctx.last_tree_head.val = call.stored_account_data.val.last_tree_head
                 /\ ctx.last_tree_head.val.tree_size = SentBody.lastTreeHeadSize
        /\ ctx.last_distinguished_tree_head = Some(call.distinguished_tree_head)
        /\ ctx.last_distinguished_tree_head.val.tree_size = SentBody.distinguishedTreeHeadSize

\* C24: the search request carries lastTreeHeadSize exactly when prior
\* account data was supplied, equal to its last tree head's size, and
\* distinguishedTreeHeadSize equal to the supplied distinguished head's size;
\* every per-identity verification is handed exactly those two heads.
C24_SizesSentAreHeadsVerified ==
    SearchSent
        => /\ ("lastTreeHeadSize" \in DOMAIN SentBody) = call.stored_account_data.some
           /\ call.stored_account_data.some
                 => SentBody.lastTreeHeadSize = call.stored_account_data.val.last_tree_head.tree_size
           /\ SentBody.distinguishedTreeHeadSize = call.distinguished_tree_head.tree_size
           /\ \A k \in DOMAIN calls : HeadsAsSent(k)

C24_Witness ==
    /\ SearchDone /\ call.stored_account_data.some
    /\ Len(calls) = 3
    /\ \A k \in DOMAIN calls : HeadsAsSent(k)
    /\ SentBody.lastTreeHeadSize = call.stored_account_data.val.last_tree_head.tree_size

C24_WitnessFirstSearch ==
    /\ SearchDone /\ ~call.stored_account_data.some
    /\ Len(calls) = 3
    /\ "lastTreeHeadSize" \notin DOMAIN SentBody
    /\ \A k \in DOMAIN calls : ~calls[k].context.last_tree_head.some

Sends(field) == field \in DOMAIN SentBody

\* C25: the search request body has e164 and unidentifiedAccessKey both
\* exactly when an E.164 was supplied and usernameHash exactly when a
\* username hash was supplied, and a field that is absent is not in the
\* object at all.
C25_OptionalFieldsTogether ==
    SearchSent
        => /\ Sends("e164") = call.e164.some
           /\ Sends("unidentifiedAccessKey") = call.e164.some
           /\ Sends("usernameHash") = call.username_hash.some
           /\ DOMAIN SentBody \subseteq
                 {"aci", "aciIdentityKey", "distinguishedTreeHeadSize"}
                     \cup (IF call.e164.some THEN {"e164", "unidentifiedAccessKey"} ELSE {})
                     \cup (IF call.username_hash.some THEN {"usernameHash"} ELSE {})
                     \cup (IF call.stored_account_data.some THEN {"lastTreeHeadSize"} ELSE {})

C25_Witness ==
    /\ SearchSent /\ call.e164.some /\ ~call.username_hash.some
    /\ Sends("e164") /\ Sends("unidentifiedAccessKey") /\ ~Sends("usernameHash")
    /\ SentBody.e164 = E164_to_string(call.e164.val[1])
    /\ SentBody.unidentifiedAccessKey = Base64("STANDARD", call.e164.val[2])

\* A distinguished call that has sent its request, and the request it sent.
DistinguishedSent == pc \in {"await", "done"} /\ call.op = "distinguished"
SentRequest == request.val.request

\* C26: the distinguished request is a GET without a body whose path and
\* query is the distinguished path followed by "?" and, when the caller
\* holds a prior head of size N, by "lastTreeHeadSize=N".
C26_DistinguishedRequest ==
    DistinguishedSent
        => /\ SentRequest.method = "GET"
           /\ SentRequest.body = None
           /\ SentRequest.path =
                 IF call.last_distinguished.some
                 THEN <<DISTINGUISHED_PATH, "?", "lastTreeHeadSize=", call.last_distinguished.val.tree_size>>
                 ELSE <<DISTINGUISHED_PATH, "?">>

\* C26 as stated: without a prior head the path and query is exactly the
\* distinguished path.
C26_Original ==
    DistinguishedSent
        => /\ SentRequest.method = "GET"
           /\ SentRequest.body = None
           /\ SentRequest.path =
                 IF call.last_distinguished.some
                 THEN <<DISTINGUISHED_PATH, "?", "lastTreeHeadSize=", call.last_distinguished.val.tree_size>>
                 ELSE <<DISTINGUISHED_PATH>>

\* A distinguished request sent without a prior head ends in "?".
C26_Witness ==
    /\ DistinguishedSent /\ ~call.last_distinguished.some
    /\ SentRequest.method = "GET" /\ SentRequest.body = None
    /\ SentRequest.path = <<DISTINGUISHED_PATH, "?">>

-----------------------------------------------------------------------------
(* Two operations in flight on one shared driver *)

\* The two callers that share the driver.
Slots == {1, 2}

\* The calls the callers make: a first search for the ACI, a monitor of all
\* three identities, and distinguished without and with a prior head.
SharedCalls ==
    { [ op |-> "search", aci |-> TheAci, aci_identity_key |-> 1,
        e164 |-> None, username_hash |-> None,
        stored_account_data |-> None, distinguished_tree_head |-> DistinguishedBefore ],
      [ op |-> "monitor", aci |-> TheAci, e164 |-> Some(TheE164), username_hash |-> Some(TheUsernameHash),
        account_data |-> StoredBefore, last_distinguished_tree_head |-> DistinguishedBefore ],
      [op |-> "distinguished", last_distinguished |-> None],
      [op |-> "distinguished", last_distinguished |-> Some(DistinguishedBefore)] }

\* The request an operation hands to the transport.
RequestOf(c) ==
    CASE c.op = "search" -> SearchRequest(c)
      [] c.op = "monitor" -> RawChatMonitorRequest_into(MonitorRequest(c).val)
      [] c.op = "distinguished" -> DistinguishedRequest(c)

\* An operation from the point where send returns.
Run(c, t) ==
    CASE c.op = "search" -> Kt_search(c, t)
      [] c.op = "monitor" -> Kt_monitor(c, t)
      [] c.op = "distinguished" -> Kt_distinguished(c, t)

\* What the transport may answer to an operation: a failure, a bad status,
\* no body, an undecodable body, or a valid answer to that operation.
SharedTransports(c) ==
    LET good == CASE c.op = "search" -> GoodSearchResponse
                  [] c.op = "monitor" ->
                        [GoodMonitorResponse EXCEPT !.e164 = Some(GoodProof), !.username_hash = Some(GoodProof)]
                  [] c.op = "distinguished" ->
                        [GoodDistinguishedResponse EXCEPT !.tree_head.val.distinguished = <<>>]
    IN  {Failure("Timeout"), Answer(404, None), Answer(200, None),
         Answer(200, Some(JsonEnvelope(Garbage))), Answer(200, Some(Encoded(good)))}

\* Faulty variant: the driver remembers the arguments of a call in flight and
\* resumes with those of the other call when there is one.
Resume_OtherArguments(in_flight, p, t) ==
    IF in_flight[3 - p].op # "none" THEN Run(in_flight[3 - p], t) ELSE Run(in_flight[p], t)

\* The operation of caller p resumes after its await: &self has nothing but
\* the verifier, the transport and the configuration, so of the calls in
\* flight only p's own arguments are at hand.
Resume(in_flight, p, t) == Run(in_flight[p], t)

InitShared ==
    /\ pc = [p \in Slots |-> "idle"]
    /\ call = [p \in Slots |-> NoCall]
    /\ request = [p \in Slots |-> None]
    /\ sends = [p \in Slots |-> 0]
    /\ response = [p \in Slots |-> None]
    /\ calls = [p \in Slots |-> <<>>]
    /\ result = [p \in Slots |-> None]
    /\ account = Some(StoredBefore)
    /\ dist = DistinguishedBefore

\* Caller p invokes an operation, which runs up to its await of the transport.
SharedStart(p, c) ==
    /\ pc[p] = "idle"
    /\ pc' = [pc EXCEPT ![p] = "await"]
    /\ call' = [call EXCEPT ![p] = c]
    /\ request' = [request EXCEPT ![p] = Some([request |-> RequestOf(c), timeout |-> chat_timeout])]
    /\ sends' = [sends EXCEPT ![p] = 1]
    /\ UNCHANGED <<response, calls, result, account, dist>>

\* The transport answers caller p's operation, which then runs to its end.
SharedAnswered(p) ==
    /\ pc[p] = "await"
    /\ \E t \in SharedTransports(call[p]) :
           LET out == Resume(call, p, t)
           IN  /\ result' = [result EXCEPT ![p] = Some(out.result)]
               /\ calls' = [calls EXCEPT ![p] = out.calls]
               /\ response' = [response EXCEPT ![p] = Some(t)]
    /\ pc' = [pc EXCEPT ![p] = "done"]
    /\ UNCHANGED <<call, request, sends, account, dist>>

\* Caller p takes its result.
SharedReturns(p) ==
    /\ pc[p] = "done"
    /\ pc' = [pc EXCEPT ![p] = "idle"]
    /\ call' = [call EXCEPT ![p] = NoCall]
    /\ request' = [request EXCEPT ![p] = None]
    /\ sends' = [sends EXCEPT ![p] = 0]
    /\ response' = [response EXCEPT ![p] = None]
    /\ calls' = [calls EXCEPT ![p] = <<>>]
    /\ result' = [result EXCEPT ![p] = None]
    /\ UNCHANGED <<account, dist>>

SpecShared ==
    /\ InitShared
    /\ [][ \/ \E p \in Slots, c \in SharedCalls : SharedStart(p, c)
           \/ \E p \in Slots : SharedAnswered(p)
           \/ \E p \in Slots : SharedReturns(p) ]_vars

\* What caller p's operation returns when it runs with nothing else in flight.
Alone(p) == Run(call[p], response[p].val)

-----------------------------------------------------------------------------
(* SVR3 clients of the bridge: the previous version has no environment *)

\* mod empty_env: what each operation of the previous-version client returns.
empty_env_backup ==
    [ok |-> FALSE, err |-> "AttestationError", reason |-> "This SVR3 environment does not exist"]

\* Faulty variant: restore reports the missing environment as backup does.
empty_env_restore_AsBackup == empty_env_backup

empty_env_restore == [ok |-> FALSE, err |-> "DataMissing"]
empty_env_remove == Ok(<<>>)
empty_env_query == [ok |-> FALSE, err |-> "DataMissing"]
empty_env_rotate == Ok(<<>>)

\* The calls made on the previous-version client, with their arguments.
Svr3Calls ==
    [op : {"backup"}, password : {"pw1", "pw2"}, secret : Keys, max_tries : 1..2]
        \cup [op : {"restore"}, password : {"pw1", "pw2"}, share_set : {"set1", "set2"}]
        \cup [op : {"remove", "query"}]
        \cup [op : {"rotate"}, share_set : {"set1", "set2"}]

InitSvr3 ==
    /\ pc = "idle"
    /\ call = NoCall
    /\ request = None
    /\ sends = 0
    /\ response = None
    /\ calls = <<>>
    /\ result = None
    /\ account = None
    /\ dist = DistinguishedBefore

\* Backup, Restore, Remove, Query and Rotate of Svr3Client<PreviousVersion>:
\* each ignores its arguments and returns what empty_env returns for it.
PreviousCall(c) ==
    /\ pc = "idle"
    /\ call' = c
    /\ result' = Some(CASE c.op = "backup" -> empty_env_backup
                        [] c.op = "restore" -> empty_env_restore
                        [] c.op = "remove" -> empty_env_remove
                        [] c.op = "query" -> empty_env_query
                        [] c.op = "rotate" -> empty_env_rotate)
    /\ pc' = "done"
    /\ UNCHANGED <<request, sends, response, calls, account, dist>>

\* The caller takes the result.
PreviousReturns ==
    /\ pc = "done"
    /\ pc' = "idle"
    /\ call' = NoCall
    /\ result' = None
    /\ UNCHANGED <<request, sends, response, calls, account, dist>>

\* Svr3Connect of Svr3Client<CurrentVersion>: one connection attempt to each
\* of the three enclaves, counted in `sends`; `response` holds the outcomes.
CurrentConnect(sgx, nitro, tpm2snp) ==
    /\ sends < 3 * MaxConnects
    /\ sends' = sends + 3
    /\ response' = Some(<<sgx, nitro, tpm2snp>>)
    /\ UNCHANGED <<pc, call, request, calls, result, account, dist>>

SpecSvr3 ==
    /\ InitSvr3
    /\ [][ \/ \E c \in Svr3Calls : PreviousCall(c)
           \/ PreviousReturns
           \/ \E sgx \in BOOLEAN, nitro \in BOOLEAN, tpm2snp \in BOOLEAN :
                  CurrentConnect(sgx, nitro, tpm2snp) ]_vars

PreviousDone == pc = "done" /\ call.op \in {"backup", "restore", "remove", "query", "rotate"}

NoSuchEnvironment ==
    [ok |-> FALSE, err |-> "AttestationError", reason |-> "This SVR3 environment does not exist"]

\* C28: no operation of the previous-version SVR3 client makes a connection
\* attempt; backup returns the "environment does not exist" attestation
\* error, restore and query return DataMissing, and remove and rotate
\* succeed without doing anything.
C28_PreviousClientOffline ==
    /\ [](PreviousDone
            => result.val = CASE call.op = "backup" -> NoSuchEnvironment
                              [] call.op \in {"restore", "query"} -> [ok |-> FALSE, err |-> "DataMissing"]
                              [] call.op \in {"remove", "rotate"} -> Ok(<<>>))
    /\ [][(pc = "idle" /\ pc' = "done") => (sends' = sends /\ response' = response)]_vars

\* C28 as stated: every operation returns the "no such environment" error.
C28_Original == PreviousDone => result.val = NoSuchEnvironment

\* A restore on the previous-version client, made after the current client
\* has connected, returns DataMissing.
C28_Witness ==
    /\ PreviousDone /\ call.op = "restore"
    /\ sends = 3
    /\ result.val = [ok |-> FALSE, err |-> "DataMissing"]

-----------------------------------------------------------------------------
(* Chat service errors: a failed connection attempt *)

\* The errors a connection attempt ends with: a failure to connect, or a
\* rejection by the server with its response. `retry_after` is what
\* extract_retry_after_seconds makes of the response's headers.
ConnectErrors ==
    [ kind : {"Transport"},
      error : {"InvalidConfiguration", "TcpConnectionFailed", "DnsError", "SslError",
               "SslFailedHandshake", "CertError", "ProxyProtocol", "ClientAbort"} ]
        \cup [kind : {"Timeout"}]
        \cup [kind : {"WebSocketError"}, error : {"Protocol", "Io"}]
        \cup [ kind : {"RejectedByServer"},
               response : [ status : {400, 401, 403, 404, 429, 499, 500, 502, 503, 508},
                            retry_after : OptionOf(0..MaxRetryAfter) ] ]

WebSocket(e) == [variant |-> "WebSocket", source |-> e]

\* Faulty variant: the status is looked at before the Retry-After header.
ChatServiceError_from_StatusFirst(e) ==
    IF e.kind # "RejectedByServer" THEN [variant |-> "Timeout"]
    ELSE IF e.response.status = 499 THEN [variant |-> "AppExpired"]
    ELSE IF e.response.status = 403 THEN [variant |-> "DeviceDeregistered"]
    ELSE IF e.response.retry_after.some
         THEN [variant |-> "RetryLater", retry_after_seconds |-> e.response.retry_after.val]
    ELSE WebSocket([kind |-> "Http", response |-> e.response])

\* impl From<WebSocketServiceConnectError> for ChatServiceError
ChatServiceError_from(e) ==
    CASE e.kind = "Transport" ->
            WebSocket([ kind |-> "Other",
                        message |->
                          CASE e.error = "InvalidConfiguration" -> "invalid configuration"
                            [] e.error = "TcpConnectionFailed" -> "TCP connection failed"
                            [] e.error = "DnsError" -> "DNS error"
                            [] e.error \in {"SslError", "SslFailedHandshake"} -> "TLS failure"
                            [] e.error = "CertError" -> "failed to load certificates"
                            [] e.error = "ProxyProtocol" -> "proxy protocol error"
                            [] e.error = "ClientAbort" -> "client abort error" ])
      [] e.kind = "Timeout" -> [variant |-> "Timeout"]
      [] e.kind = "WebSocketError" -> WebSocket([kind |-> "Error", of |-> e.error])
      [] e.kind = "RejectedByServer" ->
            IF e.response.retry_after.some
            THEN [variant |-> "RetryLater", retry_after_seconds |-> e.response.retry_after.val]
            ELSE IF e.response.status = 499 THEN [variant |-> "AppExpired"]
            ELSE IF e.response.status = 403 THEN [variant |-> "DeviceDeregistered"]
            ELSE WebSocket([kind |-> "Http", response |-> e.response])

InitConnectError ==
    /\ pc = "idle"
    /\ call \in [op : {"from"}, error : ConnectErrors]
    /\ request = None
    /\ sends = 0
    /\ response = None
    /\ calls = <<>>
    /\ result = None
    /\ account = None
    /\ dist = DistinguishedBefore

\* The error of the connection attempt is converted.
FromConnectError ==
    /\ pc = "idle"
    /\ call.op = "from"
    /\ result' = Some(ChatServiceError_from(call.error))
    /\ pc' = "done"
    /\ UNCHANGED <<call, request, sends, response, calls, account, dist>>

SpecConnectError == InitConnectError /\ [][FromConnectError]_vars

Rejected == pc = "done" /\ call.op = "from" /\ call.error.kind = "RejectedByServer"
Rejection == call.error.response

\* C29: a rejection that carries Retry-After becomes RetryLater with that
\* number of seconds whatever the status; without Retry-After, 499 becomes
\* AppExpired, 403 DeviceDeregistered, and any other status the WebSocket
\* HTTP error that carries the response.
C29_RetryAfterFirst ==
    Rejected
        => IF Rejection.retry_after.some
           THEN Returned = [variant |-> "RetryLater", retry_after_seconds |-> Rejection.retry_after.val]
           ELSE CASE Rejection.status = 499 -> Returned = [variant |-> "AppExpired"]
                  [] Rejection.status = 403 -> Returned = [variant |-> "DeviceDeregistered"]
                  [] OTHER -> Returned = [ variant |-> "WebSocket",
                                           source |-> [kind |-> "Http", response |-> Rejection] ]

C29_Witness ==
    /\ Rejected /\ Rejection.status = 499 /\ Rejection.retry_after = Some(MaxRetryAfter)
    /\ Returned = [variant |-> "RetryLater", retry_after_seconds |-> MaxRetryAfter]

C29_WitnessWithout ==
    /\ Rejected /\ Rejection.status = 403 /\ ~Rejection.retry_after.some
    /\ Returned = [variant |-> "DeviceDeregistered"]

\* The distinguished call reached the primitive verifier.
DistinguishedVerifying == DistinguishedDone /\ Len(calls) = 1

\* What the claim says of the verifier's arguments apart from the
\* distinguished head.
DistinguishedArgsFixed ==
    /\ calls[1].request.search_key = <<100, 105, 115, 116, 105, 110, 103, 117, 105, 115, 104, 101, 100>>
    /\ calls[1].context.last_tree_head = None
    /\ calls[1].context.data = None
    /\ calls[1].include_identity_key = FALSE

\* C30: distinguished calls the verifier at most once, with the search key
\* "distinguished", no last tree head, no monitoring data and the
\* include-identity-key flag false, and with the caller's prior distinguished
\* head as last_distinguished_tree_head: none exactly when the caller passed
\* none.
C30_DistinguishedVerifierArguments ==
    /\ DistinguishedDone => Len(calls) <= 1
    /\ DistinguishedVerifying
          => /\ DistinguishedArgsFixed
             /\ calls[1].context.last_distinguished_tree_head = call.last_distinguished

\* C30 as stated: no last_distinguished_tree_head is handed over, whether or
\* not the caller passed a prior head.
C30_Original ==
    DistinguishedVerifying
        => /\ DistinguishedArgsFixed
           /\ calls[1].context.last_distinguished_tree_head = None

\* A distinguished call with a prior head hands that head to the verifier.
C30_Witness ==
    /\ DistinguishedVerifying /\ call.last_distinguished.some
    /\ DistinguishedArgsFixed
    /\ calls[1].context.last_distinguished_tree_head = call.last_distinguished
    /\ Returned.ok

-----------------------------------------------------------------------------
(* Order of the steps within an operation *)

\* The decoded response has the mandatory parts of its operation and, for
\* search and monitor, exactly the optional parts that were requested.
Normalized ==
    IF call.op = "distinguished"
    THEN Message.tree_head.some /\ Message.distinguished.some
    ELSE Message.tree_head.some /\ Message.aci.some /\ ShapeMatches

VerifierInvoked == calls # <<>>

NoSendWhileVerifying ==
    ((calls # <<>> \/ calls' # <<>>) /\ pc' # "idle") => sends' = sends

\* C31: the primitive verifier is invoked only when the single transport
\* await has completed with a success status and the response has been
\* decoded and normalized, and the step that verifies makes no transport
\* call.
C31_VerifyAfterDecoding ==
    /\ [](VerifierInvoked => (AnyDone /\ sends = 1 /\ Decoded /\ Normalized))
    /\ [][NoSendWhileVerifying]_vars

C31_Witness ==
    /\ MonitorDone /\ VerifierInvoked /\ sends = 1 /\ Decoded /\ Normalized
    /\ IsVerificationFailed(Returned)

\* A response rejected at normalization never reaches the verifier.
C31_WitnessRejected ==
    /\ SearchDone /\ Decoded /\ ~Normalized /\ ~VerifierInvoked

\* The verifications search made, all of which the verifier accepted.
AllVerified == \A k \in DOMAIN calls : verify_search(calls[k]).ok
RequestedIds == {i \in Ids : Requested(i)}
BadValueIds == {i \in RequestedIds : ~(GoodPrefix(ValueOf(i)) /\ PayloadParses(i))}
ValueTags == {"bad value format", "bad ACI", "bad identity key"}

\* C32: search verifies the requested identities in the order ACI, E.164,
\* username hash and stops at the first the verifier refuses, with
\* VerificationFailed whatever the roots are; when all have verified, roots
\* that differ give "mismatching tree roots" whatever the values are; only
\* then are the values extracted.
C32_StepsInOrder ==
    (SearchDone /\ Decoded /\ Normalized)
        => /\ ~AllVerified
                => /\ IsVerificationFailed(Returned)
                   /\ \A k \in DOMAIN calls : verify_search(calls[k]).ok = (k < Len(calls))
           /\ AllVerified
                => /\ Len(calls) = Cardinality(RequestedIds)
                   /\ AllRequestedVerified
           /\ (AllVerified /\ ~RootsAgree) => IsInvalidResponse(Returned, "mismatching tree roots")
           /\ (AllVerified /\ RootsAgree /\ BadValueIds # {})
                => (IsRejected(Returned) /\ Returned.msg \in ValueTags)
           /\ (AllVerified /\ RootsAgree /\ BadValueIds = {}) => Returned.ok

\* The username hash fails verification while the roots of the ACI and the
\* E.164 differ.
C32_Witness ==
    /\ SearchDone /\ Decoded /\ Normalized
    /\ Len(calls) = 3 /\ ~verify_search(calls[3]).ok
    /\ RootOf("aci") # RootOf("e164")
    /\ IsVerificationFailed(Returned)

\* All identities verify, the roots differ and a value has a bad prefix.
C32_WitnessRootsBeforeValues ==
    /\ SearchDone /\ Decoded /\ Normalized /\ AllVerified
    /\ ~RootsAgree /\ BadValueIds # {}
    /\ IsInvalidResponse(Returned, "mismatching tree roots")

-----------------------------------------------------------------------------
(* The keys and proofs of a monitor call *)

\* A monitor that has sent its request.
MonitorSent == pc \in {"await", "done"} /\ call.op = "monitor" /\ request.some

\* The name of identity i in the JSON request, and its prior monitoring data.
WireName(i) == IF i = "username_hash" THEN "usernameHash" ELSE i
PriorData(i) == IF i = "aci" THEN call.account_data.aci ELSE call.account_data[i].val

\* The place of identity i among the keys of the verifier invocation.
KeyIndex(i) ==
    CASE i = "aci" -> 1
      [] i = "e164" -> 2
      [] i = "username_hash" -> IF call.e164.some THEN 3 ELSE 2

C34_OneVerifyMonitorCall ==
    MonitorDone
        => /\ Len(calls) = IF Decoded /\ Normalized THEN 1 ELSE 0
           /\ VerifierInvoked
                => LET a == calls[1]
                   IN  /\ a.request.consistency = None
                       /\ a.context.last_tree_head = Some(call.account_data.last_tree_head)
                       /\ a.context.last_distinguished_tree_head = call.last_distinguished_tree_head
                       /\ Len(a.request.keys) = Cardinality(RequestedIds)
                       /\ Len(a.response.proofs) = Cardinality(RequestedIds)
                       /\ \A i \in RequestedIds :
                             /\ a.request.keys[KeyIndex(i)].search_key = MonitorKeyOf(i)
                             /\ a.response.proofs[KeyIndex(i)] = Message[i].val
                             /\ a.context.data[MonitorKeyOf(i)] = PriorData(i)
                       /\ DOMAIN a.context.data = {MonitorKeyOf(i) : i \in RequestedIds}
                       /\ Cardinality(DOMAIN a.context.data) = Len(a.request.keys)

\* Three keys and three proofs, the proofs of the E.164 and of the username
\* hash being different.
C34_Witness ==
    /\ MonitorDone /\ Len(calls) = 1
    /\ Len(calls[1].request.keys) = 3 /\ Len(calls[1].response.proofs) = 3
    /\ calls[1].response.proofs[2] = Message.e164.val
    /\ calls[1].response.proofs[3] = Message.username_hash.val
    /\ Message.e164.val # Message.username_hash.val
    /\ Cardinality(DOMAIN calls[1].context.data) = 3

-----------------------------------------------------------------------------
(* ConnectionManager: swapping the endpoint connections under connects *)

(***************************************************************************)
(* Threads 1..NumWriters call set_censorship_circumvention_enabled, thread *)
(* 0 calls Svr3Connect::connect of the current-version client.  A step is  *)
(* what a thread does between two points where another thread can run:    *)
(* the critical section of the `endpoints` mutex is one step, the code     *)
(* before it and the return after it are others.                           *)
(*   pc[t]     position of thread t                                        *)
(*   call[w]   the `enabled` argument of writer w's call in progress       *)
(*   request   the local of each thread: new_endpoints of a writer, the    *)
(*             cloned Arc of the connecting thread                         *)
(*   account   the Arc held by self.endpoints                              *)
(*   sends     number of EndpointConnections built since construction,     *)
(*             which names the next one built                              *)
(*   response  the three connections the last connect was made over        *)
(*   calls     the ids of the Arcs self.endpoints has held, in order       *)
(*   result    the set call that returned last: its thread and argument    *)
(*   dist      the writers whose swap was followed by another writer's     *)
(*             swap before they returned                                   *)
(* The transport connector, cloned under its own mutex by connect, is not  *)
(* written by any of these operations and is left out.                     *)
(***************************************************************************)

\* Faulty variant: the connections are built without fallback routes
\* whatever was asked.
EndpointConnections_new_Direct(id, use_fallbacks) ==
    [ id |-> id,
      svr3 |-> << [enclave |-> "Sgx", of |-> id, fallbacks |-> FALSE],
                  [enclave |-> "Nitro", of |-> id, fallbacks |-> FALSE],
                  [enclave |-> "Tpm2Snp", of |-> id, fallbacks |-> FALSE] >>,
      enable_fronting |-> FALSE ]

\* EndpointConnections::new: the three SVR3 endpoint connections are built
\* with the same use_fallbacks; `id` tells one built value from another.
EndpointConnections_new(id, use_fallbacks) ==
    [ id |-> id,
      svr3 |-> << [enclave |-> "Sgx", of |-> id, fallbacks |-> use_fallbacks],
                  [enclave |-> "Nitro", of |-> id, fallbacks |-> use_fallbacks],
                  [enclave |-> "Tpm2Snp", of |-> id, fallbacks |-> use_fallbacks] >>,
      enable_fronting |-> use_fallbacks ]

\* ConnectionManager::new_from_static_environment: fallbacks disabled.
InitEndpoints ==
    /\ pc = [t \in 0..NumWriters |-> "idle"]
    /\ call = [t \in 0..NumWriters |-> None]
    /\ request = [t \in 0..NumWriters |-> None]
    /\ sends = 0
    /\ response = None
    /\ calls = <<0>>
    /\ result = None
    /\ account = EndpointConnections_new(0, FALSE)
    /\ dist = {}

\* set_censorship_circumvention_enabled, up to the lock: new_endpoints is
\* built outside the mutex.
SetBuild(w, enabled) ==
    /\ pc[w] = "idle"
    /\ sends < MaxSwaps
    /\ sends' = sends + 1
    /\ call' = [call EXCEPT ![w] = Some(enabled)]
    /\ request' = [request EXCEPT ![w] = Some(EndpointConnections_new(sends + 1, enabled))]
    /\ pc' = [pc EXCEPT ![w] = "built"]
    /\ UNCHANGED <<response, calls, result, account, dist>>

\* *self.endpoints.lock() = Arc::new(new_endpoints): the critical section.
SetInstall(w) ==
    /\ pc[w] = "built"
    /\ account' = request[w].val
    /\ calls' = Append(calls, request[w].val.id)
    /\ dist' = (dist \ {w}) \cup {v \in 1..NumWriters : v # w /\ pc[v] = "installed"}
    /\ pc' = [pc EXCEPT ![w] = "installed"]
    /\ UNCHANGED <<call, request, sends, response, result>>

\* The call returns to its caller.
SetReturns(w) ==
    /\ pc[w] = "installed"
    /\ result' = Some([writer |-> w, enabled |-> call[w].val])
    /\ call' = [call EXCEPT ![w] = None]
    /\ request' = [request EXCEPT ![w] = None]
    /\ pc' = [pc EXCEPT ![w] = "idle"]
    /\ UNCHANGED <<sends, response, calls, account, dist>>

\* connect, the critical section: endpoints.lock().clone() clones the Arc.
ConnectClone ==
    /\ pc[0] \in {"idle", "done"}
    /\ request' = [request EXCEPT ![0] = Some(account)]
    /\ response' = None
    /\ pc' = [pc EXCEPT ![0] = "cloned"]
    /\ UNCHANGED <<call, sends, calls, result, account, dist>>

\* connect, after the lock: (sgx, nitro, tpm2snp) = &endpoints.svr3 of the
\* clone, and one SvrConnection::connect over each, joined.
ConnectJoin ==
    /\ pc[0] = "cloned"
    /\ response' = Some(request[0].val.svr3)
    /\ pc' = [pc EXCEPT ![0] = "done"]
    /\ UNCHANGED <<call, request, sends, calls, result, account, dist>>

SpecEndpoints ==
    /\ InitEndpoints
    /\ [][ \/ \E w \in 1..NumWriters, enabled \in BOOLEAN : SetBuild(w, enabled)
           \/ \E w \in 1..NumWriters : SetInstall(w)
           \/ \E w \in 1..NumWriters : SetReturns(w)
           \/ ConnectClone
           \/ ConnectJoin ]_vars

NoWriterRunning == \A w \in 1..NumWriters : pc[w] = "idle"

\* The snapshot a connect starting now would clone was built with the
\* fallbacks of the set call that returned last.
LastReturnedInstalled == account.enable_fronting = result.val.enabled

\* The three connections of a finished connect are those of one Arc that
\* self.endpoints has held.
OneSnapshot ==
    response.some =>
        \E k \in 1..Len(calls) :
            /\ \A i \in 1..3 : response.val[i].of = calls[k]
            /\ <<response.val[1].enclave, response.val[2].enclave, response.val[3].enclave>>
                   = <<"Sgx", "Nitro", "Tpm2Snp">>
            /\ \A i \in 1..3 : response.val[i].fallbacks = response.val[1].fallbacks

\* A connect clones the Arc self.endpoints holds at that moment.
ClonesInstalled == pc'[0] = "cloned" /\ pc[0] # "cloned" => request'[0] = Some(account)

\* C35 as stated: whenever a set_censorship_circumvention_enabled(b) call
\* has returned and no writer is running, the installed snapshot, which a
\* later connect uses, was built with fallbacks = b.
C35_Original == (NoWriterRunning /\ result.some) => LastReturnedInstalled

\* C35: under any interleaving every connect uses SGX, Nitro and TPM2SNP
\* connections of one single snapshot that was installed, the one
\* installed when it took the lock; and once a
\* set_censorship_circumvention_enabled(b) call has returned with no writer
\* running and no other writer's swap between its own swap and its return,
\* that snapshot was built with fallbacks = b.
C35_ConnectUsesOneSnapshot ==
    /\ [](OneSnapshot /\ (pc[0] = "done" => response = Some(request[0].val.svr3)))
    /\ []((NoWriterRunning /\ result.some /\ result.val.writer \notin dist)
            => LastReturnedInstalled)
    /\ [][ClonesInstalled]_vars

\* A connect ran over the snapshot it had cloned before a swap, and the
\* set call that returned last, alone, is the one whose snapshot is
\* installed, with fallbacks enabled.
C35_Witness ==
    /\ pc[0] = "done"
    /\ response.val[1].of # account.id
    /\ NoWriterRunning /\ result.some /\ result.val.writer \notin dist
    /\ result.val.enabled /\ account.enable_fronting

-----------------------------------------------------------------------------
(* What a call returns and what it leaves to the next call *)

\* A monitor call whose account data does not match its request.
MismatchingMonitor == call.op = "monitor" /\ MonitorMismatch

\* The step that begins a mismatching monitor call ends it, and hands
\* nothing to the transport.
RejectedAtOnce ==
    (pc = "idle" /\ call'.op = "monitor" /\ \E i \in Optional : call'[i].some # call'.account_data[i].some)
        => (pc' = "done" /\ sends' = sends /\ request' = request /\ response' = response /\ calls' = calls)

\* C36: a monitor call whose account data does not match the requested
\* identities is never suspended at the transport: its first step is its
\* last, it returns InvalidRequest, and no request, answer or verifier call
\* belongs to it.
C36_MismatchNeverSent ==
    /\ [](MismatchingMonitor =>
            /\ pc = "done"
            /\ IsInvalidRequest(Returned, "account data does not match the monitor request")
            /\ sends = 0 /\ request = None /\ response = None /\ calls = <<>>)
    /\ [][RejectedAtOnce]_vars

\* The username hash is requested without monitoring data for it, the
\* E.164 agrees.
C36_Witness ==
    /\ MonitorDone
    /\ call.username_hash.some /\ ~call.account_data.username_hash.some
    /\ call.e164.some /\ call.account_data.e164.some
    /\ Returned = InvalidRequest("account data does not match the monitor request")
    /\ sends = 0 /\ request = None

\* The monitoring data the caller of a search held for identity i.
StoredPrior(i) ==
    IF ~call.stored_account_data.some THEN None
    ELSE IF i = "aci" THEN Some(call.stored_account_data.val.aci)
    ELSE call.stored_account_data.val[i]

\* The verifier invocation a search made for identity i.
SearchCallFor(i) == calls[KeyIndex(i)]

\* C37: the account data a successful search returns has E.164 or username
\* hash monitoring data only for an identity requested in that call, namely
\* what that identity's own verification produced, so data held before for
\* an identity that is not requested is not carried over; and the data held
\* before for a requested identity is what that identity's verification was
\* given.
C37_SearchDataPerRequestedIdentity ==
    (SearchDone /\ Returned.ok)
        => /\ \A i \in Optional : Returned.val.account_data[i].some => call[i].some
           /\ Len(calls) = Cardinality(RequestedIds)
           /\ \A i \in RequestedIds :
                 /\ SearchCallFor(i).request.search_key = SearchKeyOf(i)
                 /\ SearchCallFor(i).context.data = StoredPrior(i)
                 /\ Returned.val.account_data[i]
                       = MapStored(verify_search(SearchCallFor(i)).val.state_update.monitoring_data)

\* The caller held data for the E.164 and for the username hash, different
\* ones, and asked about the username hash only.
C37_Witness ==
    /\ SearchDone /\ Returned.ok
    /\ ~call.e164.some /\ call.username_hash.some
    /\ call.stored_account_data.some
    /\ call.stored_account_data.val.e164.some
    /\ call.stored_account_data.val.username_hash.some
    /\ call.stored_account_data.val.e164 # call.stored_account_data.val.username_hash
    /\ ~Returned.val.account_data.e164.some
    /\ Returned.val.account_data.username_hash.some
    /\ calls[2].context.data = call.stored_account_data.val.username_hash

\* The account data a successful monitor returned has monitoring data for
\* exactly the optional identities of the call.
ShapeAsRequested == \A i \in Optional : Returned.val[i].some = call[i].some

\* A monitor call for the identities of this one, with the account data this
\* one returned, gets past the construction of its request.
AcceptedAgain ==
    RawChatMonitorRequest_new(call.aci, call.e164, call.username_hash, Returned.val,
                              call.last_distinguished_tree_head.tree_size).ok

\* A monitor call that begins with account data of the shape of its request
\* is handed to the transport.
MatchingIsSent ==
    (pc = "idle" /\ call'.op = "monitor"
        /\ \A i \in Optional : call'[i].some = call'.account_data[i].some)
        => (pc' = "await" /\ sends' = 1)

\* C38: the account data a successful monitor returns has ACI monitoring
\* data and has E.164 and username hash monitoring data exactly for the
\* identities requested, so a further monitor call for the same identities
\* accepts it, whatever number of monitor calls came before.
C38_MonitorResultAcceptedAgain ==
    /\ []((MonitorDone /\ Returned.ok)
            => (ShapeAsRequested /\ DOMAIN Returned.val.aci = {"index", "pos"} /\ AcceptedAgain))
    /\ [][MatchingIsSent]_vars

\* A monitor for all three identities succeeded on account data that an
\* earlier call had returned.
C38_Witness ==
    /\ MonitorDone /\ Returned.ok
    /\ call.e164.some /\ call.username_hash.some
    /\ Returned.val.e164.some /\ Returned.val.username_hash.some
    /\ AcceptedAgain

-----------------------------------------------------------------------------
(* The errors of the three operations *)

ReturnedKinds ==
    {"ChatServiceError", "RequestFailed", "VerificationFailed", "InvalidResponse", "InvalidRequest"}

\* The last invocation of the primitive verifier in this call failed.
VerifierFailed ==
    /\ calls # <<>>
    /\ IF call.op = "monitor" THEN ~verify_monitor(calls[Len(calls)]).ok
       ELSE ~verify_search(calls[Len(calls)]).ok

\* The body came with a success status and as base64 in JSON, and its
\* bytes are not the protobuf message.
ProtobufFailure ==
    /\ Answered /\ Status \in 200..299
    /\ DecodeFailure = "invalid search response protobuf encoding"

\* C39: an error returned by search, distinguished or monitor is a
\* ChatServiceError, RequestFailed, VerificationFailed, InvalidResponse or
\* InvalidRequest, never DecodingFailed: bytes that are not the protobuf
\* message end the call with InvalidResponse; InvalidRequest is returned by
\* monitor only; and a failure of the verifier is returned as
\* VerificationFailed.
C39_ReturnedErrors ==
    (AnyDone /\ ~Returned.ok)
        => /\ Returned.err \in ReturnedKinds
           /\ Returned.err # "DecodingFailed"
           /\ ProtobufFailure
                 => Returned = InvalidResponse("invalid search response protobuf encoding")
           /\ Returned.err = "InvalidRequest" => call.op = "monitor"
           /\ VerifierFailed => Returned = VerificationFailed
           /\ Returned.err = "VerificationFailed" => VerifierFailed

\* The verifier refused the second identity of a search.
C39_Witness ==
    /\ SearchDone /\ Len(calls) = 2
    /\ verify_search(calls[1]).ok /\ VerifierFailed
    /\ Returned = VerificationFailed

\* Bytes that are not the protobuf message, in a distinguished call.
C39_WitnessProtobuf ==
    /\ AnyDone /\ call.op = "distinguished" /\ ProtobufFailure
    /\ Returned = InvalidResponse("invalid search response protobuf encoding")

====
